---- MODULE Spec2Model ----
(***************************************************************************)
(* Preview synchronisation engine of the HTML/CSS editor view:             *)
(* debounce scheduler, Sass compilation cache, multi-sink renderer and     *)
(* animation performance sampler (src/src/HTMLCSSEditorView.ts and the     *)
(* AnimationPerformanceMonitor of src/unnamed/part_000).                   *)
(***************************************************************************)
EXTENDS Integers, Sequences, FiniteSets, TLC

\* ------------------------------------------------------------------ bounds
MaxEdits == 3        \* content changes made by the user in one behaviour
MaxUpdates == 3      \* calls of updatePreview in one behaviour
MaxFsTimers == 2     \* closeFullscreen removal timers pending at once
NumTexts == 12       \* distinct compilable source texts offered to the cache
MaxCalls == 13       \* compileSass calls in one behaviour of SpecCache
MaxFrameCount == 2   \* frames counted for one animation name in one behaviour
MaxElems == 2        \* animated elements found in the preview on one frame
MaxTime == 1         \* values of performance.now(): 1..MaxTime
MaxLen == 4          \* tokens of a text handed to a sanitizer
DelaySteps == 21     \* stored refresh delays tried: 0, 100, ..., 100 * DelaySteps
MaxOverrides == 2    \* fields in which a settings object tried differs from its base

\* ------------------------------------------------------- program constants
CacheLimit == 10     \* the number in `this.sassCache.size > 10`
SizeThreshold == 5000      \* `contentSize > 5000`
DelayCap == 1000           \* `Math.min(refreshDelay * 2, 1000)`
MinRefreshDelay == 100     \* `settings.refreshDelay >= 100`
MaxRefreshDelay == 2000    \* `settings.refreshDelay <= 2000`
DefaultRefreshDelay == 300 \* DEFAULT_SETTINGS.refreshDelay

\* --------------------------------------------------------------- texts
\* A text is a sequence of tokens (numbers).  WS is a whitespace character,
\* 1..NumTexts are pieces of valid Sass, BadTok / BadTokNoMsg are pieces the
\* external compiler rejects; the remaining tokens are literal fragments the
\* code itself emits.
WS == 0
BadTok == -1
BadTokNoMsg == -2
CompiledCss == 1000      \* marks result.css of a successful compileString
ErrOpen == 1001          \* the literal "/* Sass compilation error: "
ErrClose == 1002         \* the literal " */\n"
UnknownError == 1003     \* the literal 'Unknown error'
MsgBad == 1004           \* the message of the compiler's exception for BadTok
NoHtmlPlaceholder == 1005  \* '<p><em>No HTML content to preview</em></p>'
NoCssPlaceholder == 1006   \* '/* No CSS content */'
HtmlTok == 1007          \* some markup

Blank == <<>>
Spaces == <<WS>>
BadText == <<BadTok>>            \* compiler throws an error with a message
BadTextNoMsg == <<BadTokNoMsg>>  \* compiler throws an error with an empty message

\* String.prototype.trim() followed by the emptiness test of `!s.trim()`
TrimIsEmpty(t) == \A i \in 1..Len(t) : t[i] = WS

\* sass.compileString: the external compiler, deterministic.
CompileString(t) ==
  IF \E i \in 1..Len(t) : t[i] = BadTok
  THEN [ok |-> FALSE, css |-> <<>>, message |-> <<MsgBad>>]
  ELSE IF \E i \in 1..Len(t) : t[i] = BadTokNoMsg
  THEN [ok |-> FALSE, css |-> <<>>, message |-> <<>>]
  ELSE [ok |-> TRUE, css |-> <<CompiledCss>> \o t, message |-> <<>>]

ErrorFallback_NoSource(errorMessage, sassContent) ==
  <<ErrOpen>> \o errorMessage \o <<ErrClose>>
\* the template literal `/* Sass compilation error: ${errorMessage} */\n${sassContent}`
ErrorFallback(errorMessage, sassContent) ==
  <<ErrOpen>> \o errorMessage \o <<ErrClose>> \o sassContent

\* Map.has / Map.get on the insertion-ordered cache
CacheHas_Never(cache, k) == FALSE
CacheHas(cache, k) == \E i \in 1..Len(cache) : cache[i].key = k
CacheGet_First(cache, k) == cache[1].css
CacheGet(cache, k) == (CHOOSE e \in {cache[i] : i \in 1..Len(cache)} : e.key = k).css

\* the eviction step of compileSass: `if (size > 10) delete(first key)`
EvictIfOver_Newest(cache) ==
  IF Len(cache) > CacheLimit THEN SubSeq(cache, 1, Len(cache) - 1) ELSE cache
EvictIfOver(cache) == IF Len(cache) > CacheLimit THEN Tail(cache) ELSE cache

\* Map.set for a key that is not present (a present key returned as a hit)
CacheSet(cache, k, css) == Append(cache, [key |-> k, css |-> css])

StatusReady == [cls |-> "none", text |-> "Ready", title |-> <<>>]

\* compileSass(sassContent): the result, the cache and the status element
\* after the call, and whether the external compiler was invoked.
CompileSass(cache, st, sassMode, sassContent) ==
  IF ~sassMode \/ TrimIsEmpty(sassContent)
  THEN [out |-> sassContent, cache |-> cache, status |-> st, invoked |-> 0, threw |-> FALSE]
  ELSE IF CacheHas(cache, sassContent)
  THEN [out |-> CacheGet(cache, sassContent), cache |-> cache, status |-> st,
        invoked |-> 0, threw |-> FALSE]
  ELSE LET result == CompileString(sassContent) IN
       IF result.ok
       THEN [out |-> result.css,
             cache |-> CacheSet(EvictIfOver(cache), sassContent, result.css),
             status |-> [cls |-> "success", text |-> "Compiled", title |-> st.title],
             invoked |-> 1, threw |-> FALSE]
       ELSE LET errorMessage == IF result.message = <<>> THEN <<UnknownError>>
                                ELSE result.message IN
            [out |-> ErrorFallback(errorMessage, sassContent),
             cache |-> cache,
             status |-> [cls |-> "error", text |-> "Error", title |-> errorMessage],
             invoked |-> 1, threw |-> FALSE]

\* ---------------------------------------------------------- the settings
\* JavaScript values as the settings code sees them: the result of typeof,
\* a number in hundredths (so that 1.4 and 0.95 are exact) and a string.
Undefined == [t |-> "undefined", n |-> 0, s |-> ""]
Null == [t |-> "object", n |-> 0, s |-> ""]
Bool(b) == [t |-> "boolean", n |-> IF b THEN 1 ELSE 0, s |-> ""]
Dec(i, f) == [t |-> "number", n |-> 100 * i + f, s |-> ""]
NaN == [t |-> "number", n |-> 0, s |-> "NaN"]
Str(x) == [t |-> "string", n |-> 0, s |-> x]

SettingsFields == {"autoRefresh", "refreshDelay", "fontSize", "lineHeight", "showLineNumbers",
                   "previewPosition", "editorRatio", "theme", "previewBackground",
                   "enableAutocomplete", "enableCodeFolding", "version", "lastUpdated"}

\* DEFAULT_SETTINGS; its lastUpdated is the time the module was loaded
DEFAULT_SETTINGS ==
  [autoRefresh |-> Bool(TRUE), refreshDelay |-> Dec(300, 0), fontSize |-> Dec(14, 0),
   lineHeight |-> Dec(1, 40), showLineNumbers |-> Bool(TRUE),
   previewPosition |-> Str("vertical"), editorRatio |-> Dec(0, 60), theme |-> Str("inherit"),
   previewBackground |-> Str("#ffffff"), enableAutocomplete |-> Bool(TRUE),
   enableCodeFolding |-> Bool(TRUE), version |-> Dec(1, 0), lastUpdated |-> Str("t0")]

\* an object without own properties
EmptyObject == [f \in SettingsFields |-> Undefined]

\* isValidColor on the strings tried: the hex, rgb() and hsl() patterns and
\* the list of names, compared in lower case
ValidColors == {"#ffffff", "#f0f0f0", "#FFF", "rgb(1, 2, 3)", "hsla(1, 2%, 3%, 0.5)", "Red"}
InvalidColors == {"", "#ffff", "rgb(1, 2)", "rebeccapurple", "url(x)"}
IsValidColor(c) == c \in ValidColors

\* `typeof v === 'number'` and `v >= lo && v <= hi` (false for NaN)
NumberInRange_TypeOnly(v, lo, hi) == v.t = "number"
NumberInRange(v, lo, hi) ==
  v.t = "number" /\ v.s # "NaN" /\ v.n >= lo.n /\ v.n <= hi.n

\* `v < lo || v > hi` for a number v (false for NaN)
OutOfRange(v, lo, hi) == v.s # "NaN" /\ (v.n < lo.n \/ v.n > hi.n)

\* SettingsValidator.validateSettings; isObject is false for null and
\* undefined, on which reading a property raises and the catch block returns
\* the defaults; now is the value of new Date().toISOString()
ValidateSettings(isObject, x, now) ==
  IF ~isObject THEN [DEFAULT_SETTINGS EXCEPT !.lastUpdated = Str(now)]
  ELSE
  [autoRefresh |-> IF x.autoRefresh.t = "boolean" THEN x.autoRefresh
                   ELSE DEFAULT_SETTINGS.autoRefresh,
   showLineNumbers |-> IF x.showLineNumbers.t = "boolean" THEN x.showLineNumbers
                       ELSE DEFAULT_SETTINGS.showLineNumbers,
   enableAutocomplete |-> IF x.enableAutocomplete.t = "boolean" THEN x.enableAutocomplete
                          ELSE DEFAULT_SETTINGS.enableAutocomplete,
   enableCodeFolding |-> IF x.enableCodeFolding.t = "boolean" THEN x.enableCodeFolding
                         ELSE DEFAULT_SETTINGS.enableCodeFolding,
   refreshDelay |-> IF NumberInRange(x.refreshDelay, Dec(100, 0), Dec(2000, 0))
                    THEN x.refreshDelay ELSE DEFAULT_SETTINGS.refreshDelay,
   fontSize |-> IF NumberInRange(x.fontSize, Dec(10, 0), Dec(24, 0))
                THEN x.fontSize ELSE DEFAULT_SETTINGS.fontSize,
   lineHeight |-> IF NumberInRange(x.lineHeight, Dec(1, 0), Dec(2, 0))
                  THEN x.lineHeight ELSE DEFAULT_SETTINGS.lineHeight,
   editorRatio |-> IF NumberInRange(x.editorRatio, Dec(0, 10), Dec(0, 90))
                   THEN x.editorRatio ELSE DEFAULT_SETTINGS.editorRatio,
   previewPosition |-> IF x.previewPosition \in {Str("vertical"), Str("horizontal")}
                       THEN x.previewPosition ELSE DEFAULT_SETTINGS.previewPosition,
   theme |-> IF x.theme \in {Str("inherit"), Str("light"), Str("dark")}
             THEN x.theme ELSE DEFAULT_SETTINGS.theme,
   previewBackground |-> IF x.previewBackground.t = "string"
                            /\ IsValidColor(x.previewBackground.s)
                         THEN x.previewBackground ELSE DEFAULT_SETTINGS.previewBackground,
   version |-> IF x.version.t = "number" /\ x.version.s # "NaN" /\ x.version.n > 0
               THEN x.version ELSE DEFAULT_SETTINGS.version,
   lastUpdated |-> Str(now)]

\* SettingsValidator.getValidationErrors: the messages, in the order pushed
GetValidationErrors(x) ==
  (IF x.autoRefresh # Undefined /\ x.autoRefresh.t # "boolean"
   THEN <<"autoRefresh must be a boolean">> ELSE <<>>)
  \o (IF x.refreshDelay = Undefined THEN <<>>
      ELSE IF x.refreshDelay.t # "number" THEN <<"refreshDelay must be a number">>
      ELSE IF OutOfRange(x.refreshDelay, Dec(100, 0), Dec(2000, 0))
      THEN <<"refreshDelay must be between 100-2000 milliseconds">> ELSE <<>>)
  \o (IF x.fontSize = Undefined THEN <<>>
      ELSE IF x.fontSize.t # "number" THEN <<"fontSize must be a number">>
      ELSE IF OutOfRange(x.fontSize, Dec(10, 0), Dec(24, 0))
      THEN <<"fontSize must be between 10-24 pixels">> ELSE <<>>)
  \o (IF x.lineHeight = Undefined THEN <<>>
      ELSE IF x.lineHeight.t # "number" THEN <<"lineHeight must be a number">>
      ELSE IF OutOfRange(x.lineHeight, Dec(1, 0), Dec(2, 0))
      THEN <<"lineHeight must be between 1.0-2.0">> ELSE <<>>)
  \o (IF x.editorRatio = Undefined THEN <<>>
      ELSE IF x.editorRatio.t # "number" THEN <<"editorRatio must be a number">>
      ELSE IF OutOfRange(x.editorRatio, Dec(0, 10), Dec(0, 90))
      THEN <<"editorRatio must be between 0.1-0.9">> ELSE <<>>)
  \o (IF x.previewPosition # Undefined
         /\ x.previewPosition \notin {Str("vertical"), Str("horizontal")}
      THEN <<"previewPosition must be \"vertical\" or \"horizontal\"">> ELSE <<>>)
  \o (IF x.theme # Undefined /\ x.theme \notin {Str("inherit"), Str("light"), Str("dark")}
      THEN <<"theme must be \"inherit\", \"light\", or \"dark\"">> ELSE <<>>)
  \o (IF x.previewBackground # Undefined
         /\ (x.previewBackground.t # "string" \/ ~IsValidColor(x.previewBackground.s))
      THEN <<"previewBackground must be a valid CSS color">> ELSE <<>>)

\* the values tried for a field: every type, and for a number field the
\* values at and next to the ends of its range
WrongTypes == {Undefined, Null, NaN, Bool(FALSE), Str("300")}
FieldValues(f) ==
  WrongTypes \cup
  (CASE f = "refreshDelay" -> {Dec(99, 99), Dec(100, 0), Dec(777, 0), Dec(2000, 0), Dec(2000, 1)}
     [] f = "fontSize" -> {Dec(9, 99), Dec(10, 0), Dec(18, 0), Dec(24, 0), Dec(25, 0)}
     [] f = "lineHeight" -> {Dec(0, 90), Dec(1, 0), Dec(1, 70), Dec(2, 0), Dec(2, 1)}
     [] f = "editorRatio" -> {Dec(0, 9), Dec(0, 10), Dec(0, 30), Dec(0, 90), Dec(0, 95)}
     [] f = "previewPosition" -> {Str("vertical"), Str("horizontal"), Str("Vertical")}
     [] f = "theme" -> {Str("inherit"), Str("light"), Str("dark"), Str("blue")}
     [] f = "previewBackground" -> {Str(c) : c \in ValidColors \cup InvalidColors}
     [] f = "version" -> {Dec(0, 50), Dec(1, 0), Dec(2, 0)}
     [] f = "lastUpdated" -> {Str("t0")}
     [] OTHER -> {Bool(TRUE)})

\* the objects that differ from base in at most n fields
RECURSIVE Overridden(_, _)
Overridden(base, n) ==
  IF n = 0 THEN {base}
  ELSE LET S == Overridden(base, n - 1)
       IN S \cup UNION {{[x EXCEPT ![f] = v] : x \in S, v \in FieldValues(f)} :
                         f \in SettingsFields}

\* JSON.stringify then JSON.parse of a property value, as saveData() and
\* loadData() do: an undefined property is left out, NaN becomes null
ToJson(v) == IF v.t = "number" /\ v.s = "NaN" THEN Null ELSE v

\* `settings.version || 0`: a falsy version counts as 0
CurrentVersion(x) ==
  IF x.version.t \in {"undefined", "object"} \/ x.version \in {NaN, Dec(0, 0), Bool(FALSE), Str("")}
  THEN Dec(0, 0) ELSE x.version

\* migrateToVersion1: the missing version and lastUpdated filled in
MigrateToVersion1(x, now) ==
  [x EXCEPT !.version = IF @ = Undefined THEN Dec(1, 0) ELSE @,
            !.lastUpdated = IF @ = Undefined THEN Str(now) ELSE @]

MigrateSettings_Defaults(isObject, x, now) == DEFAULT_SETTINGS
\* SettingsValidator.migrateSettings
MigrateSettings(isObject, x, now) ==
  IF ~isObject THEN DEFAULT_SETTINGS
  ELSE IF CurrentVersion(x) = DEFAULT_SETTINGS.version THEN ValidateSettings(TRUE, x, now)
  ELSE LET m == IF CurrentVersion(x).t = "number" /\ CurrentVersion(x).n < 100
                THEN MigrateToVersion1(x, now) ELSE x
       IN ValidateSettings(TRUE, [m EXCEPT !.version = DEFAULT_SETTINGS.version,
                                          !.lastUpdated = Str(now)], now)

\* the settings object of runPersistenceTest
TestSettings ==
  [DEFAULT_SETTINGS EXCEPT !.autoRefresh = Bool(FALSE), !.refreshDelay = Dec(777, 0),
     !.fontSize = Dec(18, 0), !.lineHeight = Dec(1, 70), !.previewPosition = Str("horizontal"),
     !.editorRatio = Dec(0, 30), !.theme = Str("dark"), !.previewBackground = Str("#f0f0f0"),
     !.enableAutocomplete = Bool(FALSE), !.enableCodeFolding = Bool(FALSE)]

\* the objects assigned to plugin.settings before a save: the test's object
\* and the defaults with any one field changed, and the empty object
SettingsObjects ==
  Overridden(TestSettings, 1) \cup Overridden(DEFAULT_SETTINGS, 1) \cup {EmptyObject}

\* the data file before the plugin first runs: absent, or left by a release
\* whose settings had no version field
NoSettings == [isObject |-> FALSE, obj |-> EmptyObject]
NoData == [isObject |-> FALSE, obj |-> EmptyObject, bySave |-> FALSE]
LegacyData ==
  [isObject |-> TRUE, bySave |-> FALSE,
   obj |-> [EmptyObject EXCEPT !.autoRefresh = Bool(FALSE), !.refreshDelay = Dec(500, 0)]]

\* ------------------------------------------------------------------ state
VARIABLES
  phase,             \* "constructed" | "open" | "closed" (after cleanup)
  autoRefresh,       \* plugin.settings.autoRefresh
  contentVer,        \* index of the content change held in viewState.htmlContent/cssContent
  isSassMode,        \* viewState.isSassMode
  updateTimeout,     \* TRUE iff this.updateTimeout is non-null
  timers,            \* armed debounce timers: <<[cur, src, setVer]>>; cur = updateTimeout refers to it
  rafQueue,          \* requestAnimationFrame callbacks, in request order
  inFrame,           \* callbacks of the running animation frame still to run
  attachTimers,      \* pending setTimeout(startMonitoring, 100) callbacks
  pipFrame,          \* TRUE iff this.pipContainer / this.pipFrame are non-null
  fullscreenOverlay, \* TRUE iff this.fullscreenOverlay is non-null
  fsCloseTimers,     \* pending 300 ms removal timers of closeFullscreen
  previewDoc,        \* TRUE iff previewFrame.contentDocument / contentWindow are available
  shown,             \* document displayed by each sink, NoDoc if none
  rafId,             \* TRUE iff AnimationPerformanceMonitor.rafId is non-null
  sassCache,         \* this.sassCache, insertion ordered: <<[key, css]>>
  status,            \* compilationStatusEl: class, text and title attribute
  updatesLeft,       \* updatePreview calls still allowed by MaxUpdates
  event,             \* what the last step did
  calls,             \* number of compileSass calls made through toggleCompiledView
  lastCall,          \* the last compileSass call: text, result, compiler invocations
  prevCall,          \* the compileSass call before it
  fsClosing,         \* TRUE iff closeFullscreen() took the 'active' class off the present overlay
  animations,        \* AnimationPerformanceMonitor.animations: name -> [startTime, frameCount]
  input,             \* argument of the pure function applied last (SpecSanitize, SpecDelay)
  output,            \* its result
  settings,          \* the plugin's settings field: [isObject, obj]; undefined before the first load
  stored,            \* the plugin's data file as loadData() returns it: [isObject, obj, bySave]
  isPipMode,         \* viewState.isPipMode
  storedView,        \* the data file's viewState_... entry: [present, isPipMode, isSassMode, contentVer]
  restorePending     \* TRUE iff restoreViewState() is waiting for loadData()

vars == <<phase, autoRefresh, contentVer, isSassMode, updateTimeout, timers, rafQueue,
          inFrame, attachTimers, pipFrame, fullscreenOverlay, fsCloseTimers, previewDoc,
          shown, rafId, sassCache, status, updatesLeft, event, calls, lastCall, prevCall,
          fsClosing, animations, input, output, settings, stored, isPipMode, storedView,
          restorePending>>

viewVars == <<phase, autoRefresh, contentVer, isSassMode, updateTimeout, timers, rafQueue,
              inFrame, attachTimers, pipFrame, fullscreenOverlay, fsCloseTimers, previewDoc,
              shown, rafId, updatesLeft, fsClosing, animations>>

callVars == <<calls, lastCall, prevCall>>

pureVars == <<input, output>>

settingsVars == <<settings, stored>>

restoreVars == <<isPipMode, storedView, restorePending>>

\* the data file without an entry for the view's state
NoView == [present |-> FALSE, isPipMode |-> FALSE, isSassMode |-> FALSE, contentVer |-> 0]

NoDoc == [ver |-> -1, html |-> <<>>, css |-> <<>>]
NoCall == [text |-> <<>>, out |-> <<>>, invoked |-> 0, hit |-> FALSE,
           threw |-> FALSE, cacheBefore |-> <<>>]
Sinks == {"primary", "floating", "fullscreen"}
NoInput == [fn |-> "none"]

\* the editors' text after the v-th content change
HtmlAt(v) == IF v = 0 THEN Blank ELSE <<HtmlTok, v>>
CssAt(v) == IF v = 0 THEN Blank
            ELSE IF v % 3 = 2 THEN BadText
            ELSE IF v % 4 = 0 THEN Spaces
            ELSE <<v>>

\* `this.viewState.htmlContent || this.viewState.cssContent` (non-empty strings are truthy)
HasContent(v) == HtmlAt(v) # <<>> \/ CssAt(v) # <<>>

\* ------------------------------------------------------------ sanitizers
\* Markup tokens.  An opening token is the text "<tag" without its ">", so
\* that `<tag[^>]*>` is: the opening token, tokens without ">", one token
\* that ends in ">".
ScriptOpen == 2001       \* "<script"
ScriptClose == 2002      \* "</script>"
IframeOpen == 2003       \* "<iframe"
IframeClose == 2004      \* "</iframe>"
ObjectOpen == 2005       \* "<object"
ObjectClose == 2006      \* "</object>"
EmbedOpen == 2007        \* "<embed"
EmbedClose == 2008       \* "</embed>"
FormOpen == 2009         \* "<form"
FormClose == 2010        \* "</form>"
Gt == 2011               \* ">"
Txt == 2012              \* text without markup
UnsafeHtmlCmt == 2013    \* '<!-- Unsafe element removed for security -->'
ScriptCmtOpen == 2014    \* "<!-- Script removed for security: "
CmtEnd == 2015           \* " -->"
IframeCmt == 2016        \* '<!-- Iframe removed for security -->'
ObjectCmt == 2017        \* '<!-- $1 removed for security -->' with $1 = object
EmbedPairCmt == 2018     \* '<!-- $1 removed for security -->' with $1 = embed
EmbedCmt == 2019         \* '<!-- Embed removed for security -->'
AlertTxt == 2020         \* "alert(1)"
POpen == 2021            \* "<p>"
OkTxt == 2022            \* "ok"
PClose == 2023           \* "</p>"
ExportNoHtml == 2024     \* '<p><em>No HTML content</em></p>'
ShellHead == 2025        \* the template up to the user's style
ShellMid == 2026         \* "</style></head><body>"
GuardJs == 2027          \* the body of the template's guard script
ShellEnd == 2028         \* "</body></html>"
ExportHead == 2029       \* the export template up to the user's style
ExportMid == 2030        \* the export template between the style and the markup
ExportEnd == 2031        \* the export template after the markup
OpenTag == 2032          \* an opening tag such as "<div>"
CloseTag == 2033         \* a closing tag such as "</div>"
TagSlack == 5            \* Math.abs(openTags - closeTags) > 5

\* the tokens whose text ends in ">" and has no other ">"
GtTokens == {Gt, ScriptClose, IframeClose, ObjectClose, EmbedClose, FormClose, UnsafeHtmlCmt,
             CmtEnd, IframeCmt, ObjectCmt, EmbedPairCmt, EmbedCmt, POpen, PClose}

\* Style tokens
AtImport == 2101         \* "@import"
Url == 2102              \* "url"
LPar == 2103             \* "("
RPar == 2104             \* ")"
Javascript == 2105       \* "javascript"
Colon == 2106            \* ":"
Expression == 2107       \* "expression"
Behavior == 2108         \* "behavior"
CssTxt == 2109           \* text without any of these
UnsafeCssCmt == 2110     \* '/* Unsafe CSS removed */'
CssCmtOpen == 2111       \* "/* "
RemovedEnd == 2112       \* " removed */"
RemovedSecEnd == 2113    \* " removed for security */"
CssQuoted == 2114        \* a quoted string such as 'external.css'

\* the sequences over A of length at most n
SeqsUpTo(A, n) == UNION {[1..k -> A] : k \in 0..n}

\* index of the first token of s at or after i that is in S, 0 if none
FirstIn(s, i, S) ==
  IF \E j \in i..Len(s) : s[j] \in S
  THEN CHOOSE j \in i..Len(s) : s[j] \in S /\ \A k \in i..(j - 1) : s[k] \notin S
  ELSE 0

\* index of the first token of s at or after i that is not whitespace (\s*)
SkipWs(s, i) ==
  IF \E j \in i..Len(s) : s[j] # WS
  THEN CHOOSE j \in i..Len(s) : s[j] # WS /\ \A k \in i..(j - 1) : s[k] = WS
  ELSE Len(s) + 1

\* end of a match of /<o[^>]*>[\s\S]*?<\/c>/ at the head of s, 0 if none
ElementEnd(s, o, c) ==
  LET g == IF s # <<>> /\ Head(s) = o THEN FirstIn(s, 2, GtTokens) ELSE 0
  IN IF g = 0 THEN 0 ELSE FirstIn(s, g + 1, {c})

\* end of a match of /<o[^>]*>/ at the head of s, 0 if none
VoidEnd(s, o) == IF s # <<>> /\ Head(s) = o THEN FirstIn(s, 2, GtTokens) ELSE 0

\* end of a match of /k\s*t/ at the head of s, 0 if none
KeywordEnd(s, k, t) ==
  LET j == SkipWs(s, 2)
  IN IF s # <<>> /\ Head(s) = k /\ j <= Len(s) /\ s[j] = t THEN j ELSE 0

\* end of a match of /@import\s+url\s*\([^)]*\)/ at the head of s, 0 if none
ImportEnd(s) ==
  LET u == SkipWs(s, 2)
      l == SkipWs(s, u + 1)
  IN IF /\ Len(s) >= 2 /\ s[1] = AtImport /\ s[2] = WS
        /\ u <= Len(s) /\ s[u] = Url
        /\ l <= Len(s) /\ s[l] = LPar
     THEN FirstIn(s, l + 1, {RPar})
     ELSE 0

Rest(s, e) == SubSeq(s, e + 1, Len(s))

\* s.replace(/<o[^>]*>[\s\S]*?<\/c>/gi, cmt)
RECURSIVE ReplaceElements(_, _, _, _)
ReplaceElements(s, o, c, cmt) ==
  IF s = <<>> THEN <<>>
  ELSE LET e == ElementEnd(s, o, c)
       IN IF e = 0 THEN <<Head(s)>> \o ReplaceElements(Tail(s), o, c, cmt)
          ELSE cmt \o ReplaceElements(Rest(s, e), o, c, cmt)

\* s.replace(/<o[^>]*>/gi, cmt)
RECURSIVE ReplaceVoid(_, _, _)
ReplaceVoid(s, o, cmt) ==
  IF s = <<>> THEN <<>>
  ELSE LET e == VoidEnd(s, o)
       IN IF e = 0 THEN <<Head(s)>> \o ReplaceVoid(Tail(s), o, cmt)
          ELSE cmt \o ReplaceVoid(Rest(s, e), o, cmt)

\* s.replace(/k\s*t/gi, cmt)
RECURSIVE ReplaceKeyword(_, _, _, _)
ReplaceKeyword(s, k, t, cmt) ==
  IF s = <<>> THEN <<>>
  ELSE LET e == KeywordEnd(s, k, t)
       IN IF e = 0 THEN <<Head(s)>> \o ReplaceKeyword(Tail(s), k, t, cmt)
          ELSE cmt \o ReplaceKeyword(Rest(s, e), k, t, cmt)

\* s.replace(/@import\s+url\s*\([^)]*\)/gi, cmt)
RECURSIVE ReplaceImport(_, _)
ReplaceImport(s, cmt) ==
  IF s = <<>> THEN <<>>
  ELSE LET e == ImportEnd(s)
       IN IF e = 0 THEN <<Head(s)>> \o ReplaceImport(Tail(s), cmt)
          ELSE cmt \o ReplaceImport(Rest(s, e), cmt)

\* the value the local `sanitized` holds after an assignment: the element of
\* a one-element set
TheOne(S) == CHOOSE x \in S : TRUE

\* validateAndSanitizeHTML(): the placeholder for blank markup, else the five
\* patterns in order, each match replaced by the one fixed comment (s0 is the
\* argument, sN the text after the N-th replace)
ValidateAndSanitizeHTML(h) ==
  TheOne({IF TrimIsEmpty(s0) THEN <<NoHtmlPlaceholder>>
          ELSE TheOne({ReplaceElements(s4, FormOpen, FormClose, <<UnsafeHtmlCmt>>) :
                 s4 \in {ReplaceVoid(s3, EmbedOpen, <<UnsafeHtmlCmt>>) :
                 s3 \in {ReplaceElements(s2, ObjectOpen, ObjectClose, <<UnsafeHtmlCmt>>) :
                 s2 \in {ReplaceElements(s1, IframeOpen, IframeClose, <<UnsafeHtmlCmt>>) :
                 s1 \in {ReplaceElements(s0, ScriptOpen, ScriptClose, <<UnsafeHtmlCmt>>)}}}}})
          : s0 \in {h}})

\* validateAndSanitizeCSS(): the placeholder for a blank stylesheet, else the
\* four patterns in order
ValidateAndSanitizeCSS(c) ==
  TheOne({IF TrimIsEmpty(s0) THEN <<NoCssPlaceholder>>
          ELSE TheOne({ReplaceKeyword(s3, Behavior, Colon, <<UnsafeCssCmt>>) :
                 s3 \in {ReplaceKeyword(s2, Expression, LPar, <<UnsafeCssCmt>>) :
                 s2 \in {ReplaceKeyword(s1, Javascript, Colon, <<UnsafeCssCmt>>) :
                 s1 \in {ReplaceImport(s0, <<UnsafeCssCmt>>)}}}})
          : s0 \in {c}})

\* String.prototype.trim()
Trim(t) ==
  LET I == {i \in 1..Len(t) : t[i] # WS}
  IN IF I = {} THEN <<>>
     ELSE SubSeq(t, CHOOSE i \in I : \A j \in I : i <= j, CHOOSE i \in I : \A j \in I : j <= i)

\* ExportHandler.sanitizeHTML: the script replacement, whose comment keeps
\* the trimmed text between the tags
RECURSIVE ReplaceScripts(_)
ReplaceScripts(s) ==
  IF s = <<>> THEN <<>>
  ELSE LET e == ElementEnd(s, ScriptOpen, ScriptClose)
           g == FirstIn(s, 2, GtTokens)
       IN IF e = 0 THEN <<Head(s)>> \o ReplaceScripts(Tail(s))
          ELSE <<ScriptCmtOpen>> \o Trim(SubSeq(s, g + 1, e - 1)) \o <<CmtEnd>>
                 \o ReplaceScripts(Rest(s, e))

\* s.replace(/<(object|embed)[^>]*>[\s\S]*?<\/\1>/gi, '<!-- $1 removed for security -->')
RECURSIVE ReplaceObjectEmbed(_)
ReplaceObjectEmbed(s) ==
  IF s = <<>> THEN <<>>
  ELSE LET eo == ElementEnd(s, ObjectOpen, ObjectClose)
           ee == ElementEnd(s, EmbedOpen, EmbedClose)
       IN IF eo # 0 THEN <<ObjectCmt>> \o ReplaceObjectEmbed(Rest(s, eo))
          ELSE IF ee # 0 THEN <<EmbedPairCmt>> \o ReplaceObjectEmbed(Rest(s, ee))
          ELSE <<Head(s)>> \o ReplaceObjectEmbed(Tail(s))

\* ExportHandler.sanitizeHTML
SanitizeHTML(html) ==
  IF TrimIsEmpty(html) THEN <<ExportNoHtml>>
  ELSE LET s1 == ReplaceScripts(html)
           s2 == ReplaceElements(s1, IframeOpen, IframeClose, <<IframeCmt>>)
           s3 == ReplaceObjectEmbed(s2)
       IN ReplaceVoid(s3, EmbedOpen, <<EmbedCmt>>)

\* ExportHandler.sanitizeCSS: each comment names what it replaced
SanitizeCSS(css) ==
  IF TrimIsEmpty(css) THEN <<NoCssPlaceholder>>
  ELSE LET s1 == ReplaceImport(css, <<CssCmtOpen, AtImport, RemovedSecEnd>>)
           s2 == ReplaceKeyword(s1, Javascript, Colon,
                                <<CssCmtOpen, Javascript, Colon, RemovedEnd>>)
           s3 == ReplaceKeyword(s2, Expression, LPar,
                                <<CssCmtOpen, Expression, LPar, RPar, RemovedEnd>>)
       IN ReplaceKeyword(s3, Behavior, Colon, <<CssCmtOpen, Behavior, Colon, RemovedEnd>>)

\* ExportHandler.generateCompleteHTML: the template with both texts sanitized
GenerateCompleteHTML(html, css) ==
  <<ExportHead>> \o SanitizeCSS(css) \o <<ExportMid>> \o SanitizeHTML(html) \o <<ExportEnd>>

\* an argument of canExport as JavaScript sees it: a string (its tokens) or
\* one of the values of testInvalidContentHandling
StringContent(t) == [kind |-> "string", text |-> t]
InvalidContents == {[kind |-> k, text |-> <<>>] :
                      k \in {"null", "undefined", "number", "object", "array"}}

\* content.trim(): raises a TypeError unless the content is a string
TrimThrows(c) == c.kind # "string"

\* (content.match(re) || []).length for the regular expression of tag tok
CountTags(t, tok) == Cardinality({i \in 1..Len(t) : t[i] = tok})

Abs(n) == IF n < 0 THEN -n ELSE n

\* ExportHandler.canExport: the returned object, or the TypeError raised by
\* the first trim() evaluated on a value that is no string; && evaluates
\* cssContent.trim() only when htmlContent trims to the empty string
CanExport(h, c) ==
  IF TrimThrows(h) \/ (TrimIsEmpty(h.text) /\ TrimThrows(c))
  THEN [threw |-> TRUE, canExport |-> "undefined", reason |-> "undefined"]
  ELSE IF TrimIsEmpty(h.text) /\ TrimIsEmpty(c.text)
  THEN [threw |-> FALSE, canExport |-> "false", reason |-> "No content to export"]
  ELSE IF /\ ~TrimIsEmpty(h.text)
          /\ Abs(CountTags(h.text, OpenTag) - CountTags(h.text, CloseTag)) > TagSlack
  THEN [threw |-> FALSE, canExport |-> "true", reason |-> "HTML may have unmatched tags"]
  ELSE [threw |-> FALSE, canExport |-> "true", reason |-> "undefined"]

\* the template literal of generatePreviewContent(): shell, style, markup,
\* guard script
PreviewText(html, css) ==
  <<ShellHead>> \o css \o <<ShellMid>> \o html
    \o <<ScriptOpen, Gt, GuardJs, ScriptClose, ShellEnd>>

\* SettingsValidator.validateSettings, the refreshDelay field
ValidateRefreshDelay(d) ==
  IF d >= MinRefreshDelay /\ d <= MaxRefreshDelay THEN d ELSE DefaultRefreshDelay

Min(a, b) == IF a < b THEN a ELSE b

\* the delay onContentChange() passes to setTimeout
AdaptiveDelay_NoCap(contentSize, refreshDelay) ==
  IF contentSize > SizeThreshold THEN refreshDelay * 2 ELSE refreshDelay
AdaptiveDelay(contentSize, refreshDelay) ==
  IF contentSize > SizeThreshold THEN Min(refreshDelay * 2, DelayCap) ELSE refreshDelay

GeneratePreviewContent_AlwaysCompile(v, sassMode, cache, st) ==
  LET c == CompileSass(cache, st, TRUE, CssAt(v))
  IN [doc |-> [ver |-> v, html |-> ValidateAndSanitizeHTML(HtmlAt(v)),
               css |-> ValidateAndSanitizeCSS(c.out)],
      cache |-> c.cache, status |-> c.status, invoked |-> c.invoked]
\* generatePreviewContent(): the assembled document with the cache and status
\* after it, and the number of calls of the external compiler
GeneratePreviewContent(v, sassMode, cache, st) ==
  LET c == IF sassMode THEN CompileSass(cache, st, sassMode, CssAt(v))
           ELSE [out |-> CssAt(v), cache |-> cache, status |-> st, invoked |-> 0, threw |-> FALSE]
  IN [doc |-> [ver |-> v, html |-> ValidateAndSanitizeHTML(HtmlAt(v)),
               css |-> ValidateAndSanitizeCSS(c.out)],
      cache |-> c.cache, status |-> c.status, invoked |-> c.invoked]

\* ---------------------------------------------------------------- events
Ev(op) == [op |-> op, origin |-> "none", reqVer |-> -1, doc |-> NoDoc, wrote |-> FALSE,
           uncaught |-> FALSE, cancelled |-> FALSE, elems |-> <<>>, now |-> 0,
           invoked |-> 0]

\* ------------------------------------------------------- callback records
RenderCb(origin, reqVer) == [kind |-> "render", origin |-> origin, reqVer |-> reqVer,
                             doc |-> NoDoc, cur |-> FALSE]
PushCb(kind, doc) == [kind |-> kind, origin |-> "none", reqVer |-> -1, doc |-> doc, cur |-> FALSE]
MonitorCb == [kind |-> "monitor", origin |-> "none", reqVer |-> -1, doc |-> NoDoc, cur |-> TRUE]

NotCur(e) == ~e.cur
Uncur(q) == [i \in 1..Len(q) |-> [q[i] EXCEPT !.cur = FALSE]]
CountKind(q, k) == Cardinality({i \in 1..Len(q) : q[i].kind = k})

\* clearUpdateTimeout(): the armed timers left
ClearUpdateTimeout_Noop(ts, ut) == ts
ClearUpdateTimeout(ts, ut) == IF ut THEN SelectSeq(ts, NotCur) ELSE ts

\* `this.updateTimeout = setTimeout(...)`: the new timer is the one the field refers to
SetUpdateTimeout(ts, src, v) == Append(Uncur(ts), [cur |-> TRUE, src |-> src, setVer |-> v])

\* the scheduling half of onContentChange(): timers after the call
OnContentChangeTimers_NoClear(ts, ut, auto, v) ==
  IF auto THEN SetUpdateTimeout(ts, "change", v) ELSE ts
OnContentChangeTimers(ts, ut, auto, v) ==
  IF auto THEN SetUpdateTimeout(ClearUpdateTimeout(ts, ut), "change", v) ELSE ts

\* the scheduling tail of applySettings(): timers after the call
ApplySettingsTimers_NoClear(ts, ut, auto, v) ==
  IF auto /\ HasContent(v) THEN SetUpdateTimeout(ts, "settings", v) ELSE ts
ApplySettingsTimers(ts, ut, auto, v) ==
  IF auto /\ HasContent(v)
  THEN SetUpdateTimeout(ClearUpdateTimeout(ts, ut), "settings", v)
  ELSE ts

\* the forEach of the sampler's frame callback over the animated elements:
\* a name not in the map gets a sample, then every element counts a frame
RECURSIVE MonitorElements(_, _, _)
MonitorElements(anims, elems, t) ==
  IF elems = <<>> THEN anims
  ELSE LET n == Head(elems)
           a0 == IF n \in DOMAIN anims THEN anims
                 ELSE anims @@ (n :> [startTime |-> t, frameCount |-> 0])
       IN IF n = "" \/ n = "none"
          THEN MonitorElements(anims, Tail(elems), t)
          ELSE MonitorElements([a0 EXCEPT ![n].frameCount = @ + 1], Tail(elems), t)

\* AnimationPerformanceMonitor.stopMonitoring(): cancelAnimationFrame(rafId)
StopMonitoringQueue(q, id) == IF id THEN SelectSeq(q, NotCur) ELSE q

\* closeFullscreen(): one more removal timer if the overlay exists
CloseFullscreenTimers(n, overlay) == IF overlay THEN n + 1 ELSE n

InitView ==
  /\ phase = "constructed"
  /\ autoRefresh = TRUE
  /\ contentVer = 0
  /\ isSassMode = FALSE
  /\ updateTimeout = FALSE
  /\ timers = <<>>
  /\ rafQueue = <<>>
  /\ inFrame = 0
  /\ attachTimers = 0
  /\ pipFrame = FALSE
  /\ fullscreenOverlay = FALSE
  /\ fsCloseTimers = 0
  /\ previewDoc = FALSE
  /\ shown = [s \in Sinks |-> NoDoc]
  /\ rafId = FALSE
  /\ sassCache = <<>>
  /\ status = StatusReady
  /\ updatesLeft = MaxUpdates
  /\ event = Ev("init")
  /\ calls = 0
  /\ lastCall = NoCall
  /\ prevCall = NoCall
  /\ fsClosing = FALSE
  /\ animations = <<>>
  /\ input = NoInput
  /\ output = <<>>
  /\ isPipMode = FALSE
  /\ storedView = NoView
  /\ restorePending = FALSE

\* the view constructed, the plugin's settings not loaded yet, no data file
Init ==
  /\ InitView
  /\ settings = NoSettings
  /\ stored = NoData

\* ---------------------------------------------------------------- actions
Idle == inFrame = 0

UpdatePreview_Noop(q, origin, v) == q
\* updatePreview(): requestAnimationFrame(render callback)
UpdatePreview(q, origin, v) == Append(q, RenderCb(origin, v))

\* the number of callbacks left in the running frame once the head has run
FrameAfter == IF inFrame = 0 THEN Len(rafQueue) - 1 ELSE inFrame - 1

\* onOpen(): setupPreviewPane calls updatePreview; applySettings arms no
\* timer because the view has no content yet; restoreViewState() is called
\* and waits for loadData()
OnOpen ==
  /\ phase = "constructed"
  /\ updatesLeft > 0
  /\ phase' = "open"
  /\ previewDoc' = TRUE
  /\ rafQueue' = UpdatePreview(rafQueue, "open", contentVer)
  /\ updatesLeft' = updatesLeft - 1
  /\ restorePending' = TRUE
  /\ event' = Ev("onOpen")
  /\ UNCHANGED <<autoRefresh, contentVer, isSassMode, updateTimeout, timers, inFrame,
                 attachTimers, pipFrame, fullscreenOverlay, fsCloseTimers, shown, rafId,
                 sassCache, status, callVars, pureVars, settingsVars, isPipMode, storedView,
                 fsClosing, animations>>

\* onContentChange() after the user changed the document
EditContent ==
  /\ phase = "open" /\ Idle
  /\ contentVer < MaxEdits
  /\ contentVer' = contentVer + 1
  /\ timers' = OnContentChangeTimers(timers, updateTimeout, autoRefresh, contentVer + 1)
  /\ updateTimeout' = IF autoRefresh THEN TRUE ELSE updateTimeout
  /\ event' = [Ev("change") EXCEPT !.cancelled = (autoRefresh /\ timers # <<>>)]
  /\ UNCHANGED <<phase, autoRefresh, isSassMode, rafQueue, inFrame, attachTimers, pipFrame,
                 fullscreenOverlay, fsCloseTimers, previewDoc, shown, rafId, sassCache,
                 status, updatesLeft, callVars, pureVars, settingsVars, restoreVars,
                 fsClosing, animations>>

\* toggleSassMode(): flips the mode, resets the status text, calls onContentChange()
ToggleSassMode ==
  /\ phase = "open" /\ Idle
  /\ isSassMode' = ~isSassMode
  /\ status' = IF ~isSassMode THEN [cls |-> "none", text |-> "Ready", title |-> status.title]
               ELSE status
  /\ timers' = OnContentChangeTimers(timers, updateTimeout, autoRefresh, contentVer)
  /\ updateTimeout' = IF autoRefresh THEN TRUE ELSE updateTimeout
  /\ event' = [Ev("toggleSass") EXCEPT !.cancelled = (autoRefresh /\ timers # <<>>)]
  /\ UNCHANGED <<phase, autoRefresh, contentVer, rafQueue, inFrame, attachTimers, pipFrame,
                 fullscreenOverlay, fsCloseTimers, previewDoc, shown, rafId, sassCache,
                 updatesLeft, callVars, pureVars, settingsVars, restoreVars,
                 fsClosing, animations>>

\* the settings tab changes autoRefresh; onSettingsChanged() -> applySettings()
SettingsChanged(a) ==
  /\ phase = "open" /\ Idle
  /\ autoRefresh' = a
  /\ timers' = ApplySettingsTimers(timers, updateTimeout, a, contentVer)
  /\ updateTimeout' = IF a /\ HasContent(contentVer) THEN TRUE ELSE updateTimeout
  /\ event' = [Ev("settings") EXCEPT
                 !.cancelled = (a /\ HasContent(contentVer) /\ timers # <<>>)]
  /\ UNCHANGED <<phase, contentVer, isSassMode, rafQueue, inFrame, attachTimers, pipFrame,
                 fullscreenOverlay, fsCloseTimers, previewDoc, shown, rafId, sassCache,
                 status, updatesLeft, callVars, pureVars, settingsVars, restoreVars,
                 fsClosing, animations>>

\* the debounce timer callback: () => this.updatePreview()
DebounceFire(i) ==
  /\ Idle
  /\ i \in 1..Len(timers)
  /\ updatesLeft > 0
  /\ timers' = [j \in 1..(Len(timers) - 1) |-> IF j < i THEN timers[j] ELSE timers[j + 1]]
  /\ rafQueue' = UpdatePreview(rafQueue, timers[i].src, contentVer)
  /\ updatesLeft' = updatesLeft - 1
  /\ event' = [Ev("fire") EXCEPT !.origin = timers[i].src, !.reqVer = contentVer]
  /\ UNCHANGED <<phase, autoRefresh, contentVer, isSassMode, updateTimeout, inFrame,
                 attachTimers, pipFrame, fullscreenOverlay, fsCloseTimers, previewDoc, shown,
                 rafId, sassCache, status, callVars, pureVars, settingsVars, restoreVars,
                 fsClosing, animations>>

\* manualRefreshPreview(): clearUpdateTimeout(); updatePreview()
ManualRefreshPreview ==
  /\ phase = "open" /\ Idle
  /\ updatesLeft > 0
  /\ timers' = ClearUpdateTimeout(timers, updateTimeout)
  /\ updateTimeout' = FALSE
  /\ rafQueue' = UpdatePreview(rafQueue, "manual", contentVer)
  /\ updatesLeft' = updatesLeft - 1
  /\ event' = [Ev("manualRefresh") EXCEPT !.cancelled = (timers # <<>>),
                                          !.reqVer = contentVer]
  /\ UNCHANGED <<phase, autoRefresh, contentVer, isSassMode, inFrame, attachTimers, pipFrame,
                 fullscreenOverlay, fsCloseTimers, previewDoc, shown, rafId, sassCache,
                 status, callVars, pureVars, settingsVars, restoreVars,
                 fsClosing, animations>>

\* the fan-out of updatePreview's callback: one deferred push per sink that
\* is non-null when the callback runs
RequestPushes_Never(q, pip, overlay, doc) == q
RequestPushes_Unstyled(q, pip, overlay, doc) ==
  LET q2 == IF pip THEN Append(q, PushCb("pip", [doc EXCEPT !.css = <<>>])) ELSE q
  IN IF overlay THEN Append(q2, PushCb("fs", [doc EXCEPT !.css = <<>>])) ELSE q2
RequestPushes_PipAlways(q, pip, overlay, doc) ==
  LET q2 == Append(q, PushCb("pip", doc))
  IN IF overlay THEN Append(q2, PushCb("fs", doc)) ELSE q2
RequestPushes_Always(q, pip, overlay, doc) ==
  Append(Append(q, PushCb("pip", doc)), PushCb("fs", doc))
RequestPushes(q, pip, overlay, doc) ==
  LET q2 == IF pip THEN Append(q, PushCb("pip", doc)) ELSE q
  IN IF overlay THEN Append(q2, PushCb("fs", doc)) ELSE q2

\* history only: the fullscreen pushes requested (those after the first n
\* callbacks) by a render that started after closeFullscreen() are marked
MarkAfterClose(q, n, closing) ==
  [i \in 1..Len(q) |-> IF closing /\ i > n /\ q[i].kind = "fs"
                       THEN [q[i] EXCEPT !.origin = "afterClose"] ELSE q[i]]

\* the animation-frame callback of updatePreview(): assemble, write the
\* primary sink, arm the monitoring attach, request the deferred pushes
RunRender ==
  /\ rafQueue # <<>> /\ Head(rafQueue).kind = "render"
  /\ LET cb == Head(rafQueue)
         g == GeneratePreviewContent(contentVer, isSassMode, sassCache, status)
         q3 == MarkAfterClose(RequestPushes(Tail(rafQueue), pipFrame, fullscreenOverlay,
                                            g.doc), Len(rafQueue) - 1, fsClosing)
     IN /\ sassCache' = g.cache
        /\ status' = g.status
        /\ shown' = IF previewDoc THEN [shown EXCEPT !["primary"] = g.doc] ELSE shown
        /\ attachTimers' = attachTimers + 1
        /\ rafQueue' = q3
        /\ event' = [Ev("render") EXCEPT !.origin = cb.origin, !.reqVer = cb.reqVer,
                                         !.doc = g.doc, !.wrote = previewDoc,
                                         !.invoked = g.invoked]
  /\ inFrame' = FrameAfter
  /\ UNCHANGED <<phase, autoRefresh, contentVer, isSassMode, updateTimeout, timers, pipFrame,
                 fullscreenOverlay, fsCloseTimers, previewDoc, rafId, updatesLeft, callVars, pureVars, settingsVars, restoreVars,
                 fsClosing, animations>>

\* the deferred floating push: renderPreviewContentToFrame(this.pipFrame, content);
\* a null pipFrame raises inside the try block and is logged
RunPipPush ==
  /\ rafQueue # <<>> /\ Head(rafQueue).kind = "pip"
  /\ shown' = IF pipFrame THEN [shown EXCEPT !["floating"] = Head(rafQueue).doc] ELSE shown
  /\ event' = [Ev("pipPush") EXCEPT !.doc = Head(rafQueue).doc, !.wrote = pipFrame]
  /\ rafQueue' = Tail(rafQueue)
  /\ inFrame' = FrameAfter
  /\ UNCHANGED <<phase, autoRefresh, contentVer, isSassMode, updateTimeout, timers,
                 attachTimers, pipFrame, fullscreenOverlay, fsCloseTimers, previewDoc, rafId,
                 sassCache, status, updatesLeft, callVars, pureVars, settingsVars, restoreVars,
                 fsClosing, animations>>

\* the deferred fullscreen push: this.fullscreenOverlay.querySelector(...) is
\* evaluated outside any try block, so a null overlay raises out of the callback
RunFsPush ==
  /\ rafQueue # <<>> /\ Head(rafQueue).kind = "fs"
  /\ shown' = IF fullscreenOverlay THEN [shown EXCEPT !["fullscreen"] = Head(rafQueue).doc]
              ELSE shown
  /\ event' = [Ev("fsPush") EXCEPT !.doc = Head(rafQueue).doc, !.wrote = fullscreenOverlay,
                                   !.origin = Head(rafQueue).origin,
                                   !.uncaught = ~fullscreenOverlay]
  /\ rafQueue' = Tail(rafQueue)
  /\ inFrame' = FrameAfter
  /\ UNCHANGED <<phase, autoRefresh, contentVer, isSassMode, updateTimeout, timers,
                 attachTimers, pipFrame, fullscreenOverlay, fsCloseTimers, previewDoc, rafId,
                 sassCache, status, updatesLeft, callVars, pureVars, settingsVars, restoreVars,
                 fsClosing, animations>>

\* the sampler's frame callback `monitor`: returns when the document is gone,
\* swallows an introspection error, otherwise requests the next frame
\* elems: the computed animationName of each element querySelectorAll found;
\* t: the value of performance.now(); throws: reading the frame's document raises
RunMonitorFrame(throws, elems, t) ==
  /\ rafQueue # <<>> /\ Head(rafQueue).kind = "monitor"
  /\ IF previewDoc /\ ~throws
     THEN /\ rafQueue' = Append(Uncur(Tail(rafQueue)), MonitorCb)
          /\ rafId' = TRUE
          /\ animations' = MonitorElements(animations, elems, t)
     ELSE /\ rafQueue' = Tail(rafQueue)
          /\ rafId' = rafId
          /\ animations' = animations
  /\ \A n \in DOMAIN animations' : animations'[n].frameCount <= MaxFrameCount
  /\ event' = [Ev("monitor") EXCEPT !.wrote = (previewDoc /\ ~throws),
                                    !.elems = elems, !.now = t]
  /\ inFrame' = FrameAfter
  /\ UNCHANGED <<phase, autoRefresh, contentVer, isSassMode, updateTimeout, timers,
                 attachTimers, pipFrame, fullscreenOverlay, fsCloseTimers, previewDoc, shown,
                 sassCache, status, updatesLeft, callVars, pureVars, settingsVars, restoreVars,
                 fsClosing>>

\* a frame of a preview without animated elements
RunMonitor(throws) == RunMonitorFrame(throws, <<>>, 0)

\* the 100 ms timer of updatePreview: startMonitoring(this.previewFrame)
AttachFire ==
  /\ Idle
  /\ attachTimers > 0
  /\ attachTimers' = attachTimers - 1
  /\ IF previewDoc
     THEN /\ rafQueue' = Append(Uncur(rafQueue), MonitorCb)
          /\ rafId' = TRUE
     ELSE UNCHANGED <<rafQueue, rafId>>
  /\ event' = [Ev("attach") EXCEPT !.wrote = previewDoc]
  /\ UNCHANGED <<phase, autoRefresh, contentVer, isSassMode, updateTimeout, timers, inFrame,
                 pipFrame, fullscreenOverlay, fsCloseTimers, previewDoc, shown, sassCache,
                 status, updatesLeft, callVars, pureVars, settingsVars, restoreVars,
                 fsClosing, animations>>

\* openPictureInPicture(): creates the floating sink and fills it through
\* updatePipPreview() (assemble now, write now)
OpenPictureInPicture ==
  /\ phase = "open" /\ Idle
  /\ ~pipFrame
  /\ LET g == GeneratePreviewContent(contentVer, isSassMode, sassCache, status)
     IN /\ pipFrame' = TRUE
        /\ sassCache' = g.cache
        /\ status' = g.status
        /\ shown' = [shown EXCEPT !["floating"] = g.doc]
        /\ event' = [Ev("openPip") EXCEPT !.doc = g.doc, !.wrote = TRUE,
                                          !.invoked = g.invoked]
  /\ isPipMode' = TRUE
  /\ UNCHANGED <<phase, autoRefresh, contentVer, isSassMode, updateTimeout, timers, rafQueue,
                 inFrame, attachTimers, fullscreenOverlay, fsCloseTimers, previewDoc, rafId,
                 updatesLeft, callVars, pureVars, settingsVars, storedView, restorePending,
                 fsClosing, animations>>

\* closePictureInPicture(): removes the container, nulls pipContainer and pipFrame
ClosePictureInPicture ==
  /\ phase = "open" /\ Idle
  /\ pipFrame
  /\ pipFrame' = FALSE
  /\ shown' = [shown EXCEPT !["floating"] = NoDoc]
  /\ event' = Ev("closePip")
  /\ isPipMode' = FALSE
  /\ UNCHANGED <<phase, autoRefresh, contentVer, isSassMode, updateTimeout, timers, rafQueue,
                 inFrame, attachTimers, fullscreenOverlay, fsCloseTimers, previewDoc, rafId,
                 sassCache, status, updatesLeft, callVars, pureVars, settingsVars, storedView, restorePending,
                 fsClosing, animations>>

\* openFullscreen(): creates the overlay and writes the current document to its frame
OpenFullscreen ==
  /\ phase = "open" /\ Idle
  /\ ~fullscreenOverlay
  /\ LET g == GeneratePreviewContent(contentVer, isSassMode, sassCache, status)
     IN /\ fullscreenOverlay' = TRUE
        /\ sassCache' = g.cache
        /\ status' = g.status
        /\ shown' = [shown EXCEPT !["fullscreen"] = g.doc]
        /\ event' = [Ev("openFs") EXCEPT !.doc = g.doc, !.wrote = TRUE,
                                         !.invoked = g.invoked]
  /\ fsClosing' = FALSE
  /\ UNCHANGED <<phase, autoRefresh, contentVer, isSassMode, updateTimeout, timers, rafQueue,
                 inFrame, attachTimers, pipFrame, fsCloseTimers, previewDoc, rafId,
                 updatesLeft, callVars, pureVars, settingsVars, restoreVars,
                 animations>>

\* closeFullscreen(): the overlay is removed and nulled by a 300 ms timer
CloseFullscreen ==
  /\ phase = "open" /\ Idle
  /\ fullscreenOverlay
  /\ fsCloseTimers < MaxFsTimers
  /\ fsCloseTimers' = CloseFullscreenTimers(fsCloseTimers, fullscreenOverlay)
  /\ event' = Ev("closeFs")
  /\ fsClosing' = TRUE
  /\ UNCHANGED <<phase, autoRefresh, contentVer, isSassMode, updateTimeout, timers, rafQueue,
                 inFrame, attachTimers, pipFrame, fullscreenOverlay, previewDoc, shown, rafId,
                 sassCache, status, updatesLeft, callVars, pureVars, settingsVars, restoreVars,
                 animations>>

\* the 300 ms timer of closeFullscreen(): if (this.fullscreenOverlay) remove and null it
FsRemoveFire ==
  /\ Idle
  /\ fsCloseTimers > 0
  /\ fsCloseTimers' = fsCloseTimers - 1
  /\ fullscreenOverlay' = FALSE
  /\ shown' = IF fullscreenOverlay THEN [shown EXCEPT !["fullscreen"] = NoDoc] ELSE shown
  /\ event' = [Ev("fsRemove") EXCEPT !.wrote = fullscreenOverlay]
  /\ fsClosing' = FALSE
  /\ UNCHANGED <<phase, autoRefresh, contentVer, isSassMode, updateTimeout, timers, rafQueue,
                 inFrame, attachTimers, pipFrame, previewDoc, rafId, sassCache, status,
                 updatesLeft, callVars, pureVars, settingsVars, restoreVars,
                 animations>>

\* onClose(): saveViewState() hands the live viewState object to saveData,
\* which replaces the whole data file; cleanup(): clearUpdateTimeout,
\* stopMonitoring, close the floating and fullscreen sinks.  Whether the host
\* serializes viewState before or after cleanup() cleared isPipMode is the
\* host's choice.
OnClose ==
  /\ phase = "open" /\ Idle
  /\ fullscreenOverlay => fsCloseTimers < MaxFsTimers
  /\ phase' = "closed"
  /\ timers' = ClearUpdateTimeout(timers, updateTimeout)
  /\ updateTimeout' = FALSE
  /\ rafQueue' = StopMonitoringQueue(rafQueue, rafId)
  /\ rafId' = FALSE
  /\ pipFrame' = FALSE
  /\ shown' = IF pipFrame THEN [shown EXCEPT !["floating"] = NoDoc] ELSE shown
  /\ fsCloseTimers' = CloseFullscreenTimers(fsCloseTimers, fullscreenOverlay)
  /\ event' = [Ev("onClose") EXCEPT !.cancelled = (timers # <<>>)]
  /\ fsClosing' = fullscreenOverlay
  /\ \E pip \in (IF pipFrame THEN {isPipMode, FALSE} ELSE {isPipMode}) :
       storedView' = [present |-> TRUE, isPipMode |-> pip, isSassMode |-> isSassMode,
                      contentVer |-> contentVer]
  /\ stored' = [isObject |-> TRUE, obj |-> EmptyObject, bySave |-> FALSE]
  /\ isPipMode' = IF pipFrame THEN FALSE ELSE isPipMode
  /\ UNCHANGED <<autoRefresh, contentVer, isSassMode, inFrame, attachTimers,
                 fullscreenOverlay, previewDoc, sassCache, status, updatesLeft, callVars, pureVars, settings, restorePending,
                 animations>>

\* the host detaches the closed view's DOM: the preview frame loses its
\* contentDocument / contentWindow (the `if (doc)` and `!contentWindow` tests)
HostDetach ==
  /\ phase = "closed" /\ Idle
  /\ previewDoc
  /\ previewDoc' = FALSE
  /\ shown' = [shown EXCEPT !["primary"] = NoDoc]
  /\ event' = Ev("detach")
  /\ UNCHANGED <<phase, autoRefresh, contentVer, isSassMode, updateTimeout, timers, rafQueue,
                 inFrame, attachTimers, pipFrame, fullscreenOverlay, fsCloseTimers, rafId,
                 sassCache, status, updatesLeft, callVars, pureVars, settingsVars, restoreVars,
                 fsClosing, animations>>

\* The change aggregator: edits, settings, the debounce timer, manual refresh,
\* the render callback and close.
Next ==
  \/ OnOpen
  \/ EditContent
  \/ ToggleSassMode
  \/ \E a \in BOOLEAN : SettingsChanged(a)
  \/ \E i \in 1..Len(timers) : DebounceFire(i)
  \/ ManualRefreshPreview
  \/ RunRender
  \/ OnClose

Spec == Init /\ [][Next]_vars

\* The multi-sink renderer: renders fanned out to the floating and fullscreen
\* sinks while the user edits and opens and closes them.
NextSinks ==
  \/ OnOpen
  \/ EditContent
  \/ \E i \in 1..Len(timers) : DebounceFire(i)
  \/ RunRender
  \/ RunPipPush
  \/ RunFsPush
  \/ OpenPictureInPicture
  \/ ClosePictureInPicture
  \/ OpenFullscreen
  \/ CloseFullscreen
  \/ FsRemoveFire
  \/ OnClose

SpecSinks == Init /\ [][NextSinks]_vars

\* The render jobs with the preprocessor switched on and off and the
\* floating and fullscreen sinks opened on the way.
NextJobs ==
  \/ OnOpen
  \/ EditContent
  \/ ToggleSassMode
  \/ \E i \in 1..Len(timers) : DebounceFire(i)
  \/ RunRender
  \/ RunPipPush
  \/ RunFsPush
  \/ OpenPictureInPicture
  \/ OpenFullscreen
  \/ OnClose

SpecJobs == Init /\ [][NextJobs]_vars

\* The same with the host's scheduling: an armed timer fires and a requested
\* animation-frame callback runs.
SpecSinksFair ==
  /\ SpecSinks
  /\ WF_vars(\E i \in 1..Len(timers) : DebounceFire(i))
  /\ WF_vars(RunRender)
  /\ WF_vars(RunPipPush)
  /\ WF_vars(RunFsPush)
  /\ WF_vars(FsRemoveFire)

\* Failures on the way: the preprocessor rejecting the stylesheet and the
\* deferred floating push finding its frame gone, under the host's scheduling.
NextFaults ==
  \/ OnOpen
  \/ EditContent
  \/ ToggleSassMode
  \/ \E i \in 1..Len(timers) : DebounceFire(i)
  \/ RunRender
  \/ RunPipPush
  \/ OpenPictureInPicture
  \/ ClosePictureInPicture
  \/ OnClose

SpecFaults ==
  /\ Init /\ [][NextFaults]_vars
  /\ WF_vars(\E i \in 1..Len(timers) : DebounceFire(i))
  /\ WF_vars(RunRender)
  /\ WF_vars(RunPipPush)

\* The feature's life cycle with the performance sampler: renders, the
\* deferred monitoring attach, the frame-polling loop, close and detach.
NextLife ==
  \/ OnOpen
  \/ EditContent
  \/ \E i \in 1..Len(timers) : DebounceFire(i)
  \/ ManualRefreshPreview
  \/ RunRender
  \/ \E throws \in BOOLEAN : RunMonitor(throws)
  \/ AttachFire
  \/ OnClose
  \/ HostDetach

SpecLife == Init /\ [][NextLife]_vars

\* AnimationPerformanceMonitor.reset(): this.animations.clear()
Reset ==
  /\ Idle
  /\ animations' = <<>>
  /\ event' = Ev("reset")
  /\ UNCHANGED <<phase, autoRefresh, contentVer, isSassMode, updateTimeout, timers, rafQueue,
                 inFrame, attachTimers, pipFrame, fullscreenOverlay, fsCloseTimers, previewDoc,
                 shown, rafId, sassCache, status, updatesLeft, callVars, pureVars, settingsVars, restoreVars, fsClosing>>

\* The performance sampler on a preview with animated elements: what each
\* element's computed animationName is on a frame is the host's choice.
AnimNames == {"spin", "fade"}
FrameElems == SeqsUpTo(AnimNames \cup {"none"}, MaxElems)

NextSampler ==
  \/ OnOpen
  \/ ManualRefreshPreview
  \/ RunRender
  \/ AttachFire
  \/ \E throws \in BOOLEAN, elems \in FrameElems, t \in 1..MaxTime :
       RunMonitorFrame(throws, elems, t)
  \/ Reset
  \/ OnClose

SpecSampler == Init /\ [][NextSampler]_vars

\* the continuation of restoreViewState() once loadData() has returned: the
\* saved state is merged over viewState, saved content is dispatched into the
\* editors (each dispatch runs onContentChange) and updatePreview() is called
RestoreViewState ==
  /\ phase = "open" /\ Idle
  /\ restorePending
  /\ restorePending' = FALSE
  /\ IF storedView.present
     THEN /\ updatesLeft > 0
          /\ isPipMode' = storedView.isPipMode
          /\ isSassMode' = storedView.isSassMode
          /\ contentVer' = storedView.contentVer
          /\ timers' = IF HasContent(storedView.contentVer)
                        THEN OnContentChangeTimers(timers, updateTimeout, autoRefresh,
                                                   storedView.contentVer)
                        ELSE timers
          /\ updateTimeout' = IF HasContent(storedView.contentVer) /\ autoRefresh THEN TRUE
                               ELSE updateTimeout
          /\ rafQueue' = UpdatePreview(rafQueue, "restore", storedView.contentVer)
          /\ updatesLeft' = updatesLeft - 1
          /\ event' = [Ev("restore") EXCEPT !.wrote = TRUE]
     ELSE /\ event' = Ev("restore")
          /\ UNCHANGED <<isPipMode, isSassMode, contentVer, timers, updateTimeout, rafQueue,
                         updatesLeft>>
  /\ UNCHANGED <<phase, autoRefresh, inFrame, attachTimers, pipFrame, fullscreenOverlay,
                 fsCloseTimers, previewDoc, shown, rafId, sassCache, status, callVars,
                 pureVars, settingsVars, storedView, fsClosing, animations>>

\* togglePictureInPicture(): closePictureInPicture() if viewState.isPipMode,
\* else openPictureInPicture(); the former returns at once without a
\* container, the latter with one
TogglePictureInPicture ==
  \/ isPipMode /\ ClosePictureInPicture
  \/ ~isPipMode /\ OpenPictureInPicture
  \/ /\ phase = "open" /\ Idle
     /\ isPipMode # pipFrame
     /\ event' = Ev("toggleNoop")
     /\ UNCHANGED <<viewVars, sassCache, status, callVars, pureVars, settingsVars, restoreVars>>

\* the host constructs the view anew after a close: a fresh object in its
\* constructed state; the callbacks still pending for the discarded object
\* belong to that object and leave with it.  The data file stays.
NewView ==
  /\ phase = "closed" /\ Idle
  /\ phase' = "constructed"
  /\ contentVer' = 0
  /\ isSassMode' = FALSE
  /\ isPipMode' = FALSE
  /\ restorePending' = FALSE
  /\ updateTimeout' = FALSE
  /\ timers' = <<>>
  /\ rafQueue' = <<>>
  /\ attachTimers' = 0
  /\ fullscreenOverlay' = FALSE
  /\ fsCloseTimers' = 0
  /\ fsClosing' = FALSE
  /\ previewDoc' = FALSE
  /\ shown' = [s \in Sinks |-> NoDoc]
  /\ rafId' = FALSE
  /\ sassCache' = <<>>
  /\ status' = StatusReady
  /\ animations' = <<>>
  /\ updatesLeft' = MaxUpdates
  /\ event' = Ev("newView")
  /\ UNCHANGED <<autoRefresh, inFrame, pipFrame, callVars, pureVars, settingsVars, storedView>>

\* ------------------------------------------------- settings persistence
\* the test and the settings tab assign plugin.settings (or fields of it)
AssignSettings(x) ==
  /\ settings' = [isObject |-> TRUE, obj |-> x]
  /\ event' = Ev("assign")
  /\ UNCHANGED <<viewVars, sassCache, status, callVars, pureVars, stored, restoreVars>>

\* saveSettings(): validate, stamp, saveData; a rejected saveData is reported
\* and leaves the file as it was; saveData(this.settings) replaces the whole
\* file, the view's entry included.  The plugin's field and the file after it.
SaveSettingsResult(st, sto, fails) ==
  LET v == ValidateSettings(st.isObject, st.obj, "t1")
  IN [settings |-> [isObject |-> TRUE, obj |-> v],
      stored |-> IF fails THEN sto
                 ELSE [isObject |-> TRUE, bySave |-> TRUE,
                       obj |-> [f \in SettingsFields |-> ToJson(v[f])]]]

SaveSettings(fails) ==
  /\ LET r == SaveSettingsResult(settings, stored, fails)
     IN settings' = r.settings /\ stored' = r.stored
  /\ storedView' = IF fails THEN storedView ELSE NoView
  /\ event' = [Ev("save") EXCEPT !.wrote = ~fails]
  /\ UNCHANGED <<viewVars, sassCache, status, callVars, pureVars, isPipMode, restorePending>>

\* loadSettings(): migrate what loadData() returned and save it back if there
\* was no data or its version differs; a rejected loadData gives the defaults,
\* which are saved
LoadSettings(loadFails, saveFails) ==
  /\ LET m == MigrateSettings(stored.isObject, stored.obj, "t1")
         loaded == [isObject |-> TRUE, obj |-> IF loadFails THEN DEFAULT_SETTINGS ELSE m]
         saves == loadFails \/ ~stored.isObject \/ stored.obj.version # m.version
         r == IF saves THEN SaveSettingsResult(loaded, stored, saveFails)
              ELSE [settings |-> loaded, stored |-> stored]
     IN /\ settings' = r.settings
        /\ stored' = r.stored
        /\ storedView' = IF saves /\ ~saveFails THEN NoView ELSE storedView
        /\ event' = [Ev("load") EXCEPT !.origin = IF loadFails THEN "readFailed" ELSE "read",
                                       !.wrote = (saves /\ ~saveFails)]
  /\ UNCHANGED <<viewVars, sassCache, status, callVars, pureVars, isPipMode, restorePending>>

NextPersist ==
  \/ \E x \in SettingsObjects : AssignSettings(x)
  \/ \E fails \in BOOLEAN : SaveSettings(fails)
  \/ \E loadFails \in BOOLEAN, saveFails \in BOOLEAN : LoadSettings(loadFails, saveFails)

InitPersist ==
  /\ InitView
  /\ settings = NoSettings
  /\ stored \in {NoData, LegacyData}

SpecPersist == InitPersist /\ [][NextPersist]_vars

\* The data file shared by the view and the plugin: the floating sink
\* toggled, the view closed, constructed anew, opened and its state restored,
\* the plugin's settings assigned, saved and loaded.
NextViewState ==
  \/ OnOpen
  \/ RestoreViewState
  \/ EditContent
  \/ TogglePictureInPicture
  \/ \E i \in 1..Len(timers) : DebounceFire(i)
  \/ RunRender
  \/ RunPipPush
  \/ OnClose
  \/ NewView
  \/ AssignSettings(TestSettings)
  \/ \E fails \in BOOLEAN : SaveSettings(fails)
  \/ \E loadFails \in BOOLEAN, saveFails \in BOOLEAN : LoadSettings(loadFails, saveFails)

SpecViewState == Init /\ [][NextViewState]_vars

\* ------------------------------------------------- the compilation cache
\* The source texts offered to compileSass.  Valid texts are interchangeable,
\* so a text never compiled before is always the next unused number.
MaxKey(cache) == IF cache = <<>> THEN 0
                 ELSE CHOOSE m \in {cache[i].key[1] : i \in 1..Len(cache)} :
                        \A i \in 1..Len(cache) : cache[i].key[1] <= m
TextInputs(cache) ==
  {<<n>> : n \in 1..(IF MaxKey(cache) < NumTexts THEN MaxKey(cache) + 1 ELSE NumTexts)}
    \cup {Blank, Spaces, BadText, BadTextNoMsg}

InitCache ==
  /\ phase = "open"
  /\ autoRefresh = TRUE
  /\ contentVer = 0
  /\ isSassMode = TRUE
  /\ updateTimeout = FALSE
  /\ timers = <<>>
  /\ rafQueue = <<>>
  /\ inFrame = 0
  /\ attachTimers = 0
  /\ pipFrame = FALSE
  /\ fullscreenOverlay = FALSE
  /\ fsCloseTimers = 0
  /\ previewDoc = TRUE
  /\ shown = [s \in Sinks |-> NoDoc]
  /\ rafId = FALSE
  /\ sassCache = <<>>
  /\ status = StatusReady
  /\ updatesLeft = 0
  /\ event = Ev("init")
  /\ calls = 0
  /\ lastCall = NoCall
  /\ prevCall = NoCall
  /\ fsClosing = FALSE
  /\ animations = <<>>
  /\ input = NoInput
  /\ output = <<>>
  /\ settings = NoSettings
  /\ stored = NoData
  /\ isPipMode = FALSE
  /\ storedView = NoView
  /\ restorePending = FALSE

\* toggleCompiledView() with the stylesheet editor holding t: compileSass(t)
ToggleCompiledView(t) ==
  /\ isSassMode
  /\ calls < MaxCalls
  /\ LET c == CompileSass(sassCache, status, isSassMode, t)
     IN /\ sassCache' = c.cache
        /\ status' = c.status
        /\ lastCall' = [text |-> t, out |-> c.out, invoked |-> c.invoked,
                        hit |-> CacheHas(sassCache, t), threw |-> c.threw,
                        cacheBefore |-> sassCache]
  /\ prevCall' = lastCall
  /\ calls' = calls + 1
  /\ event' = Ev("compiledView")
  /\ UNCHANGED <<viewVars, pureVars, settingsVars, restoreVars>>

NextCache == \E t \in TextInputs(sassCache) : ToggleCompiledView(t)

SpecCache == InitCache /\ [][NextCache]_vars

\* ------------------------------------------------- the pure functions
HtmlAlphabet == {ScriptOpen, ScriptClose, EmbedOpen, FormOpen, FormClose, Gt, Txt, WS}
CssAlphabet == {AtImport, Url, LPar, RPar, Javascript, Colon, CssTxt, WS}
Lengths == {0, 2500, 2501, 5000, 5001}

\* the scenario markup <script>alert(1)</script><p>ok</p>
ScriptScenario == <<ScriptOpen, Gt, AlertTxt, ScriptClose, POpen, OkTxt, PClose>>

\* the texts of at most n tokens, for each of the four sanitizers
SanitizeInputs(n) ==
  {[fn |-> f, text |-> t] : f \in {"validateAndSanitizeHTML", "sanitizeHTML"},
                            t \in SeqsUpTo(HtmlAlphabet, n)}
    \cup {[fn |-> f, text |-> t] : f \in {"validateAndSanitizeCSS", "sanitizeCSS"},
                                   t \in SeqsUpTo(CssAlphabet, n)}
\* the stylesheets of at most n tokens exported with the markup "text"
ExportCssAlphabet == {AtImport, Url, LPar, RPar, Javascript, Behavior, Colon, CssQuoted,
                      CssTxt, WS}
ExportInputs(n) ==
  {[fn |-> "generateCompleteHTML", text |-> <<Txt>>, css |-> c] :
     c \in SeqsUpTo(ExportCssAlphabet, n)}
\* the calls of canExport: strings of at most n tokens, a markup with six
\* unclosed tags, and the values of testInvalidContentHandling, for either
\* argument
UnbalancedHtml == <<OpenTag, OpenTag, Txt, OpenTag, OpenTag, OpenTag, OpenTag, Txt>>
ExportContents(n) ==
  {StringContent(t) : t \in SeqsUpTo({OpenTag, CloseTag, Txt, WS}, n) \cup {UnbalancedHtml}}
    \cup InvalidContents
CanExportInputs(n) ==
  {[fn |-> "canExport", text |-> <<>>, html |-> h, css |-> c] :
     h \in ExportContents(n), c \in ExportContents(n)}
PreviewInputs ==
  {[fn |-> "generatePreviewContent", text |-> h, css |-> c] :
     h \in {ScriptScenario, <<POpen, OkTxt, PClose>>, Blank},
     c \in {<<CssTxt>>, Blank}}
DelayInputs ==
  {[fn |-> "onContentChange", htmlLen |-> a, cssLen |-> b, refreshDelay |-> 100 * k] :
     a \in Lengths, b \in Lengths, k \in 0..DelaySteps}

\* the settings objects handed to validateSettings: partial ones, complete
\* ones with some fields changed, and null
SettingsInputs(n) ==
  {[fn |-> "validateSettings", isObject |-> TRUE, settings |-> x] :
     x \in Overridden(EmptyObject, n) \cup Overridden(DEFAULT_SETTINGS, n)}
    \cup {[fn |-> "validateSettings", isObject |-> FALSE, settings |-> EmptyObject]}

\* the function named by the input, applied (the sanitizers once and twice)
Apply(in) ==
  CASE in.fn = "validateAndSanitizeHTML" ->
         [once |-> ValidateAndSanitizeHTML(in.text),
          twice |-> ValidateAndSanitizeHTML(ValidateAndSanitizeHTML(in.text))]
    [] in.fn = "validateAndSanitizeCSS" ->
         [once |-> ValidateAndSanitizeCSS(in.text),
          twice |-> ValidateAndSanitizeCSS(ValidateAndSanitizeCSS(in.text))]
    [] in.fn = "sanitizeHTML" ->
         [once |-> SanitizeHTML(in.text), twice |-> SanitizeHTML(SanitizeHTML(in.text))]
    [] in.fn = "sanitizeCSS" ->
         [once |-> SanitizeCSS(in.text), twice |-> SanitizeCSS(SanitizeCSS(in.text))]
    [] in.fn = "canExport" -> CanExport(in.html, in.css)
    [] in.fn = "generateCompleteHTML" ->
         [text |-> GenerateCompleteHTML(in.text, in.css)]
    [] in.fn = "generatePreviewContent" ->
         [html |-> ValidateAndSanitizeHTML(in.text),
          text |-> PreviewText(ValidateAndSanitizeHTML(in.text),
                               ValidateAndSanitizeCSS(in.css))]
    [] in.fn = "validateSettings" ->
         [validated |-> ValidateSettings(in.isObject, in.settings, "t1"),
          errors |-> GetValidationErrors(ValidateSettings(in.isObject, in.settings, "t1"))]
    [] in.fn = "onContentChange" ->
         [base |-> ValidateRefreshDelay(in.refreshDelay),
          delay |-> AdaptiveDelay(in.htmlLen + in.cssLen,
                                  ValidateRefreshDelay(in.refreshDelay))]

InitPure(Inputs) ==
  /\ phase = "open"
  /\ autoRefresh = TRUE
  /\ contentVer = 0
  /\ isSassMode = FALSE
  /\ updateTimeout = FALSE
  /\ timers = <<>>
  /\ rafQueue = <<>>
  /\ inFrame = 0
  /\ attachTimers = 0
  /\ pipFrame = FALSE
  /\ fullscreenOverlay = FALSE
  /\ fsCloseTimers = 0
  /\ previewDoc = TRUE
  /\ shown = [s \in Sinks |-> NoDoc]
  /\ rafId = FALSE
  /\ sassCache = <<>>
  /\ status = StatusReady
  /\ updatesLeft = 0
  /\ event = Ev("init")
  /\ calls = 0
  /\ lastCall = NoCall
  /\ prevCall = NoCall
  /\ fsClosing = FALSE
  /\ animations = <<>>
  /\ input \in Inputs
  /\ output = <<>>
  /\ settings = NoSettings
  /\ stored = NoData
  /\ isPipMode = FALSE
  /\ storedView = NoView
  /\ restorePending = FALSE

ApplyPure ==
  /\ event.op = "init"
  /\ input.fn # "none"
  /\ output' = Apply(input)
  /\ event' = Ev("apply")
  /\ UNCHANGED <<viewVars, sassCache, status, callVars, input, settingsVars, restoreVars>>

\* the sanitizers and the assembler on every short text
SpecSanitize ==
  /\ InitPure(SanitizeInputs(MaxLen) \cup PreviewInputs \cup ExportInputs(MaxLen)
                \cup CanExportInputs(MaxLen - 2))
  /\ [][ApplyPure]_vars

\* the delay computation on every stored delay and the lengths around the threshold
SpecDelay == InitPure(DelayInputs) /\ [][ApplyPure]_vars

\* the settings validator on partial, complete, wrongly typed and out-of-range objects
SpecSettings == InitPure(SettingsInputs(MaxOverrides)) /\ [][ApplyPure]_vars

\* ================================================================ claims
Last(q) == q[Len(q)]

C2_CacheBound ==
  /\ Len(sassCache) <= CacheLimit
  /\ (calls = CacheLimit + 1 /\ CacheHas(sassCache, <<CacheLimit + 1>>)) =>
        (/\ ~CacheHas(sassCache, <<1>>)
         /\ \A n \in 2..(CacheLimit + 1) : CacheHas(sassCache, <<n>>))

\* C3 (as stated): for every source text (read as: not blank, and not
\* cached before the first call), two consecutive compiles of it invoke the
\* external compiler exactly once in total and return identical output.
C3_TwiceInvokesOnce ==
  (calls >= 2 /\ lastCall.text = prevCall.text /\ ~prevCall.hit
     /\ ~TrimIsEmpty(lastCall.text)) =>
     (prevCall.invoked + lastCall.invoked = 1 /\ lastCall.out = prevCall.out)

\* C3 (amended): two consecutive compiles of the same text return identical
\* output; if the text is not blank, is accepted by the compiler and was not
\* cached before, the first call invokes the compiler once and the second not at all.
C3_TwiceInvokesOnceIfValid ==
  (calls >= 2 /\ lastCall.text = prevCall.text) =>
     /\ lastCall.out = prevCall.out
     /\ (~prevCall.hit /\ ~TrimIsEmpty(lastCall.text) /\ CompileString(lastCall.text).ok) =>
           (prevCall.invoked = 1 /\ lastCall.invoked = 0)

C3_Witness ==
  /\ calls >= 2 /\ lastCall.text = prevCall.text
  /\ ~prevCall.hit /\ prevCall.invoked = 1
  /\ lastCall.hit /\ lastCall.invoked = 0 /\ lastCall.out = <<CompiledCss>> \o lastCall.text

\* C4: when the external compiler throws on s, compileSass(s) returns
\* normally, the result is the error comment with the compiler's message
\* followed by s unchanged, and the cache is as it was before the call.
C4_FailSafe ==
  (calls >= 1 /\ ~TrimIsEmpty(lastCall.text) /\ ~CompileString(lastCall.text).ok) =>
     LET s == lastCall.text
         out == lastCall.out
         msg == CompileString(s).message
     IN /\ ~lastCall.threw
        /\ Len(out) >= Len(s) + 3
        /\ out[1] = ErrOpen
        /\ out[Len(out) - Len(s)] = ErrClose
        /\ SubSeq(out, Len(out) - Len(s) + 1, Len(out)) = s
        /\ (msg # <<>> => SubSeq(out, 2, 1 + Len(msg)) = msg)
        /\ sassCache = lastCall.cacheBefore
        /\ ~CacheHas(sassCache, s)

C4_Witness ==
  /\ calls >= 1 /\ lastCall.text = BadText /\ lastCall.invoked = 1
  /\ Len(lastCall.cacheBefore) > 0
  /\ lastCall.out = <<ErrOpen, MsgBad, ErrClose, BadTok>>

\* C5: a deferred push writes its document to the floating (fullscreen) sink
\* exactly when that sink exists at the time of the write; a document only
\* appears in a sink that exists; and a render requests a push for a sink
\* exactly when the sink exists, so an absent sink is never written to.
C5_FanOut ==
  [][/\ (event'.op = "pipPush" =>
           /\ event'.wrote <=> pipFrame
           /\ event'.wrote => shown'["floating"] = event'.doc)
     /\ (event'.op = "fsPush" =>
           /\ event'.wrote <=> fullscreenOverlay
           /\ event'.wrote => shown'["fullscreen"] = event'.doc)
     /\ (shown'["floating"] # shown["floating"] /\ shown'["floating"] # NoDoc) => pipFrame'
     /\ (shown'["fullscreen"] # shown["fullscreen"] /\ shown'["fullscreen"] # NoDoc)
           => fullscreenOverlay'
     /\ (event'.op = "render" =>
           /\ CountKind(rafQueue', "pip") =
                CountKind(Tail(rafQueue), "pip") + (IF pipFrame THEN 1 ELSE 0)
           /\ CountKind(rafQueue', "fs") =
                CountKind(Tail(rafQueue), "fs") + (IF fullscreenOverlay THEN 1 ELSE 0)
           /\ event'.wrote <=> previewDoc)
    ]_vars

\* floating live, fullscreen absent: primary and floating show the render's document
C5_Witness ==
  /\ event.op = "pipPush" /\ event.wrote
  /\ pipFrame /\ ~fullscreenOverlay
  /\ shown["primary"] = event.doc /\ shown["floating"] = event.doc
  /\ shown["fullscreen"] = NoDoc
  /\ CountKind(rafQueue, "fs") = 0
  /\ event.doc.ver >= 1

\* C6: no render callback lets an error escape, whichever sink was torn
\* down between the liveness check and the write.
C6_NoUncaughtError == ~event.uncaught

\* C7: a write to a sink never replaces a displayed document by one
\* assembled from an older content change.
C7_NoReorder ==
  [][\A s \in Sinks : (shown[s] # NoDoc /\ shown'[s] # NoDoc) => shown'[s].ver >= shown[s].ver]_vars

\* C8: while auto-refresh is off no debounce job fires and every render is
\* one requested by manual refresh (or the initial render of onOpen).
C8_OnlyManualWhileOff ==
  ~autoRefresh =>
     /\ event.op # "fire"
     /\ (event.op = "render" => event.origin \in {"manual", "open"})

\* C9: manualRefreshPreview leaves no debounce timer armed and requests
\* exactly one render, with auto-refresh on or off, and that render
\* assembles the content current when it runs.
C9_ManualRefresh ==
  [][/\ (event'.op = "manualRefresh" =>
           /\ timers' = <<>>
           /\ CountKind(rafQueue', "render") = CountKind(rafQueue, "render") + 1
           /\ Last(rafQueue').origin = "manual")
     /\ ((event'.op = "render" /\ event'.origin = "manual") =>
           (event'.doc.ver = contentVer' /\ (event'.wrote <=> previewDoc)))
    ]_vars

\* a force refresh with auto-refresh off that cancelled a pending debounce job
C9_Witness ==
  /\ event.op = "manualRefresh" /\ event.cancelled
  /\ ~autoRefresh
  /\ timers = <<>>

\* C10: once the feature is closed no debounce timer is armed, no document
\* is assembled or written, and the sampler's loop neither polls nor starts.
C10_QuietAfterClose ==
  [][phase = "closed" =>
       /\ timers' = <<>>
       /\ event'.op \notin {"render", "pipPush", "fsPush"}
       /\ ~(event'.op = "monitor" /\ event'.wrote)
       /\ ~(event'.op = "attach" /\ event'.wrote)
    ]_vars

\* C11: at most one debounce job is outstanding and it is the one the
\* updateTimeout field refers to; a content change or a settings change that
\* schedules a job leaves exactly its own job armed, the previous one
\* cancelled; and the only job that ever fires is the armed, referenced one,
\* so a cancelled job never requests a render.
C11_OneJob ==
  /\ [](/\ Len(timers) <= 1
        /\ \A i \in 1..Len(timers) : timers[i].cur /\ updateTimeout)
  /\ [][/\ (event'.op \in {"change", "toggleSass"} /\ autoRefresh) =>
             timers' = <<[cur |-> TRUE, src |-> "change", setVer |-> contentVer']>>
        /\ (event'.op = "settings" /\ autoRefresh' /\ HasContent(contentVer)) =>
             timers' = <<[cur |-> TRUE, src |-> "settings", setVer |-> contentVer]>>
        /\ event'.op = "fire" =>
             (Len(timers) = 1 /\ timers[1].cur /\ timers' = <<>>
              /\ Len(rafQueue') = Len(rafQueue) + 1)
       ]_vars

\* a settings change that cancelled the job of a content change and armed its own
C11_Witness ==
  /\ event.op = "settings" /\ event.cancelled
  /\ timers = <<[cur |-> TRUE, src |-> "settings", setVer |-> 1]>>
  /\ contentVer = 1

\* the pushes of kind k a step added to the animation-frame queue
Added(k) == CountKind(rafQueue', k) - CountKind(Tail(rafQueue), k)

\* C12 (as stated): once the user has closed the fullscreen sink, no render
\* that starts after the close writes to it.
C12_ClosedSinkOut ==
  ~(event.op = "fsPush" /\ event.origin = "afterClose" /\ event.wrote)

\* C12 (amended): a sink whose handle has been nulled (the floating sink by
\* closePictureInPicture, the fullscreen sink by the removal timer of
\* closeFullscreen) is out of the fan-out set: a render that starts then
\* requests no push for it and it displays nothing; while the handle is still
\* non-null, also during the 300 ms after closeFullscreen, the render does
\* request the push.
C12_OutAfterTeardown ==
  /\ [](/\ ~pipFrame => shown["floating"] = NoDoc
        /\ ~fullscreenOverlay => (shown["fullscreen"] = NoDoc /\ ~fsClosing))
  /\ [][event'.op = "render" =>
          /\ Added("pip") = IF pipFrame THEN 1 ELSE 0
          /\ Added("fs") = IF fullscreenOverlay THEN 1 ELSE 0]_vars

\* a render that started after closeFullscreen() wrote to the closing overlay
C12_Witness ==
  /\ event.op = "fsPush" /\ event.origin = "afterClose" /\ event.wrote
  /\ fsClosing /\ fullscreenOverlay

\* the document generatePreviewContent() assembles from the present content
CurrentDoc == GeneratePreviewContent(contentVer, isSassMode, sassCache, status).doc

\* every sink whose handle is non-null displays the present content's document
InSync ==
  /\ previewDoc => shown["primary"] = CurrentDoc
  /\ pipFrame => shown["floating"] = CurrentDoc
  /\ fullscreenOverlay => shown["fullscreen"] = CurrentDoc

\* C13: with auto-refresh on, once content changes have stopped every live
\* sink eventually displays the document assembled from the final content
\* and keeps displaying it, whatever sinks are opened and closed; the view
\* being closed or never opened, or the last debounce timer being held back
\* by the MaxUpdates bound, are the only exceptions.
C13_EventuallyInSync ==
  <>[](\/ phase # "open"
       \/ (timers # <<>> /\ updatesLeft = 0)
       \/ (autoRefresh /\ InSync))

\* two changes, both extra sinks open, everything drained and in sync
C13_Witness ==
  /\ phase = "open" /\ contentVer = 2
  /\ timers = <<>> /\ rafQueue = <<>>
  /\ pipFrame /\ fullscreenOverlay /\ InSync
  /\ event.op = "fsPush" /\ event.wrote /\ event.doc.ver = 2

\* C14: the steps of onContentChange raise nothing; a render whose
\* compilation failed still assembles and writes a document; and with
\* auto-refresh on every armed debounce timer the MaxUpdates bound lets fire
\* leads to a render of the then present content in the primary sink, also
\* after a compile failure or a floating push that found its frame gone.
C14_StillPreviewed ==
  /\ [](/\ event.op \in {"change", "toggleSass"} => ~event.uncaught
        /\ event.op = "render" =>
             (~event.uncaught /\ event.wrote /\ shown["primary"] = event.doc
              /\ event.doc = CurrentDoc))
  /\ [][(event'.op = "change" /\ autoRefresh) =>
          (Len(timers') = 1 /\ timers'[1].setVer = contentVer')]_vars
  /\ (phase = "open" /\ timers # <<>> /\ updatesLeft > 0)
       ~> (phase # "open" \/ (event.op = "render" /\ shown["primary"] = CurrentDoc))

\* the second change's stylesheet was rejected by the compiler and the third
\* change is rendered all the same
C14_Witness ==
  /\ event.op = "render" /\ event.doc.ver = 3 /\ event.wrote
  /\ status.title # <<>>
  /\ isSassMode

\* C15: sanitization is idempotent for every markup and every style, in the
\* preview's sanitizers and in the export's: sanitizing the sanitized text
\* gives the sanitized text.
C15_Idempotent ==
  (event.op = "apply" /\ input.fn \in {"validateAndSanitizeHTML", "validateAndSanitizeCSS",
                                       "sanitizeHTML", "sanitizeCSS"})
    => output.twice = output.once

\* the tokens of a text
Tokens(t) == {t[i] : i \in 1..Len(t)}

\* C16: for the markup <script>alert(1)</script><p>ok</p> the assembled
\* document keeps <p>ok</p>, retains alert(1) (inside a comment) and has no
\* <script tag.
C16_ScriptScenario ==
  (event.op = "apply" /\ input.fn = "generatePreviewContent" /\ input.text = ScriptScenario)
    => /\ \E i \in 1..(Len(output.text) - 2) :
            SubSeq(output.text, i, i + 2) = <<POpen, OkTxt, PClose>>
       /\ AlertTxt \in Tokens(output.text)
       /\ ScriptOpen \notin Tokens(output.text)

C18_OncePerName ==
  [][(event'.op = "monitor" /\ event'.wrote) =>
       \A n \in AnimNames \cap Tokens(event'.elems) :
          IF n \in DOMAIN animations
          THEN animations'[n] = [animations[n] EXCEPT !.frameCount = @ + 1]
          ELSE animations'[n] = [startTime |-> event'.now, frameCount |-> 0]]_vars

\* C19: a frame on which inspecting the primary sink fails adds nothing to
\* any sample and leaves the polling loop requested for the next frame.
C19_ContinuesAfterFailure ==
  [][(event'.op = "monitor" /\ ~event'.wrote) =>
       /\ animations' = animations
       /\ CountKind(rafQueue', "monitor") = CountKind(rafQueue, "monitor")]_vars

\* C20: while rafId is null (stopMonitoring has returned and startMonitoring
\* has not been called since) no frame-polling callback runs; reset empties
\* the samples and leaves the loop and rafId alone.
C20_StoppedMeansQuiet ==
  [][/\ ~rafId => event'.op # "monitor"
     /\ event'.op = "reset" =>
          (animations' = <<>> /\ rafQueue' = rafQueue /\ rafId' = rafId)]_vars

\* C21: after a compile of a text that is not blank, the status indicator
\* shows the outcome of that compile: the error class with the compiler's
\* message as its title exactly when the compile failed, and otherwise a class
\* other than error and no message.
C21_StatusTracksLastCompile ==
  (calls >= 1 /\ ~TrimIsEmpty(lastCall.text)) =>
     LET result == CompileString(lastCall.text)
     IN IF result.ok
        THEN status.cls # "error" /\ status.title = <<>>
        ELSE /\ status.cls = "error"
             /\ status.title = (IF result.message = <<>> THEN <<UnknownError>>
                                ELSE result.message)

\* C22: with Sass mode off, assembling a document does not invoke the
\* external compiler, leaves the compilation cache and the status indicator
\* as they were, and hands the stylesheet to the sanitizer as written.
C22_NoCompileWhenOff ==
  [][(event'.op \in {"render", "openPip", "openFs"} /\ ~isSassMode) =>
       /\ event'.invoked = 0
       /\ sassCache' = sassCache
       /\ status' = status
       /\ event'.doc.css = ValidateAndSanitizeCSS(CssAt(contentVer))]_vars

\* Sass mode switched off after a compile: a render of a stylesheet the
\* compiler would reject, with the cache holding the earlier result
C22_Witness ==
  /\ event.op = "render" /\ ~isSassMode
  /\ sassCache # <<>>
  /\ CssAt(contentVer) = BadText /\ event.doc.css = BadText
  /\ event.invoked = 0

\* what the settings interface requires of the value of field f
FieldValid(f, v) ==
  CASE f \in {"autoRefresh", "showLineNumbers", "enableAutocomplete", "enableCodeFolding"} ->
         v.t = "boolean"
    [] f = "refreshDelay" -> v.t = "number" /\ v.s = "" /\ v.n \in 10000..200000
    [] f = "fontSize" -> v.t = "number" /\ v.s = "" /\ v.n \in 1000..2400
    [] f = "lineHeight" -> v.t = "number" /\ v.s = "" /\ v.n \in 100..200
    [] f = "editorRatio" -> v.t = "number" /\ v.s = "" /\ v.n \in 10..90
    [] f = "previewPosition" -> v.t = "string" /\ v.s \in {"vertical", "horizontal"}
    [] f = "theme" -> v.t = "string" /\ v.s \in {"inherit", "light", "dark"}
    [] f = "previewBackground" -> v.t = "string" /\ IsValidColor(v.s)
    [] f = "version" -> v.t = "number" /\ v.s = "" /\ v.n > 0
    [] f = "lastUpdated" -> v.t = "string"

UserFields == SettingsFields \ {"showLineNumbers", "version", "lastUpdated"}

Contains(t, p) == \E i \in 1..(Len(t) - Len(p) + 1) : SubSeq(t, i, i + Len(p) - 1) = p

\* t contains @import, whitespace and then url or a quoted string
HasImport(t) ==
  \E i \in 1..(Len(t) - 2) :
     /\ t[i] = AtImport /\ t[i + 1] = WS
     /\ SkipWs(t, i + 1) <= Len(t) /\ t[SkipWs(t, i + 1)] \in {Url, CssQuoted}

\* C25: for every stylesheet the exported document contains no "javascript:",
\* no "behavior:" and no @import directive, in the url(...) form or the
\* quoted form.
C25_ExportCssSafe ==
  (event.op = "apply" /\ input.fn = "generateCompleteHTML") =>
     /\ ~Contains(output.text, <<Javascript, Colon>>)
     /\ ~Contains(output.text, <<Behavior, Colon>>)
     /\ ~HasImport(output.text)

\* C26: canExport raises nothing and returns an object whose canExport flag
\* is defined, for every content value: strings, null, undefined, a number,
\* an object, an array.
C26_CanExportTotal ==
  (event.op = "apply" /\ input.fn = "canExport") =>
     ~output.threw /\ output.canExport \in {"true", "false"}

\* C27: the cache is evicted by insertion order only: a hit leaves the cache,
\* and so its oldest entry, as it is; a compile removes at most one entry,
\* removes one only when the insert would otherwise take the cache past 10
\* entries, and the entry removed is the oldest-inserted one, the others
\* keeping their order with the new entry last.
C27_EvictOldestOnly ==
  [][event'.op = "compiledView" =>
       /\ (lastCall'.hit => sassCache' = sassCache)
       /\ \/ sassCache' = sassCache
          \/ /\ ~lastCall'.hit
             /\ sassCache' = CacheSet(sassCache, lastCall'.text, lastCall'.out)
          \/ /\ ~lastCall'.hit
             /\ Len(sassCache) + 1 > CacheLimit
             /\ sassCache' = CacheSet(Tail(sassCache), lastCall'.text, lastCall'.out)]_vars

\* an insert that evicted: the entry that was first is gone, the one that
\* was second is now the oldest
C27_Witness ==
  /\ event.op = "compiledView" /\ ~lastCall.hit /\ lastCall.invoked = 1
  /\ Len(lastCall.cacheBefore) > CacheLimit
  /\ ~CacheHas(sassCache, lastCall.cacheBefore[1].key)
  /\ sassCache[1] = lastCall.cacheBefore[2]
  /\ sassCache[Len(sassCache)].key = lastCall.text

\* C28: the step in which a debounce job fires assembles the document and
\* writes it to the primary sink, so that after the firing the primary sink
\* shows the document of the content current at the firing, no render is
\* left waiting and no timer token is retained; and the document a debounced
\* render writes is the one of the content at the moment its timer fired.
C28_FireRendersAtOnce ==
  /\ event.op = "fire" =>
        /\ previewDoc => shown["primary"] = CurrentDoc
        /\ CountKind(rafQueue, "render") = 0
        /\ ~updateTimeout
  /\ (event.op = "render" /\ event.origin \in {"change", "settings"}) =>
        event.doc.ver = event.reqVer

\* C29: the sampler's monitoring attach is triggered only by a render that
\* wrote the primary sink, in that render's step after the write; a render
\* whose primary write was skipped or failed triggers no attach.
C29_AttachAfterWrite ==
  [][/\ attachTimers' > attachTimers => (event'.op = "render" /\ event'.wrote)
     /\ event'.op = "render" =>
          attachTimers' = attachTimers + (IF event'.wrote THEN 1 ELSE 0)]_vars

\* the callbacks a step appended to the animation-frame queue whose head it ran
NewCallbacks == SubSeq(rafQueue', Len(rafQueue), Len(rafQueue'))

\* C30: a render job assembles one document and invokes the external
\* compiler at most once; the primary sink, if written, receives that
\* document, every push the job requests carries that document, and a push
\* writes to its sink the document it carries.
C30_OneDocumentPerJob ==
  [][/\ event'.op = "render" =>
          /\ event'.invoked \in {0, 1}
          /\ event'.doc = CurrentDoc
          /\ event'.wrote => shown'["primary"] = event'.doc
          /\ \A i \in 1..Len(NewCallbacks) :
                NewCallbacks[i].kind \in {"pip", "fs"} /\ NewCallbacks[i].doc = event'.doc
     /\ event'.op \in {"pipPush", "fsPush"} =>
          /\ event'.doc = Head(rafQueue).doc
          /\ event'.wrote =>
               shown'[IF event'.op = "pipPush" THEN "floating" ELSE "fullscreen"] = event'.doc
    ]_vars

\* a job that compiled its stylesheet once and whose document is now shown
\* by the primary, the floating and the fullscreen sink
C30_Witness ==
  /\ event.op = "fsPush" /\ event.wrote
  /\ isSassMode /\ event.doc.css = <<CompiledCss, 1>>
  /\ shown["primary"] = event.doc
  /\ shown["floating"] = event.doc
  /\ shown["fullscreen"] = event.doc

\* C31: at most one frame-polling loop of the sampler is active, however
\* often startMonitoring was called: never more than one `monitor` callback
\* is waiting for the next animation frame.
C31_OneLoop == CountKind(rafQueue, "monitor") <= 1

\* C32: viewState.isPipMode is true exactly when the floating sink exists,
\* in every state, so that togglePictureInPicture called while no floating
\* sink exists opens one.
C32_PipModeIsSink ==
  /\ [](isPipMode <=> pipFrame)
  /\ [][(event'.op \in {"openPip", "closePip", "toggleNoop"} /\ ~pipFrame) => pipFrame']_vars

\* C33: for every base delay validation lets through (100..2000 ms) the
\* delay used for a document of combined length above 5000 is at least the
\* delay used for a small document under the same base delay.
C33_LargeNotShorter ==
  (event.op = "apply" /\ input.fn = "onContentChange"
     /\ input.htmlLen + input.cssLen > SizeThreshold)
    => output.delay >= AdaptiveDelay(0, output.base)

\* C34: saving the view state (on close) leaves the persisted settings as
\* they were, and a successful saveSettings leaves the persisted view state
\* as it was.
C34_SavesAreDisjoint ==
  [][/\ event'.op = "onClose" => stored' = stored
     /\ (event'.op = "save" /\ event'.wrote) => storedView' = storedView]_vars

\* C35: the cached pipeline returns on every call what a pipeline without a
\* cache returns for that text, and every cache entry holds the compiler's
\* successful output for exactly its key, each key once.
C35_CacheTransparent ==
  /\ calls >= 1 =>
        lastCall.out = CompileSass(<<>>, StatusReady, TRUE, lastCall.text).out
  /\ \A i \in 1..Len(sassCache) :
        /\ CompileString(sassCache[i].key).ok
        /\ sassCache[i].css = CompileString(sassCache[i].key).css
        /\ \A j \in 1..Len(sassCache) : sassCache[j].key = sassCache[i].key => j = i

\* a hit on an entry that is not the oldest, after a rejected text and an
\* eviction: the cached output is the compiler's output for that text
C35_Witness ==
  /\ calls >= 3 /\ lastCall.hit /\ lastCall.invoked = 0
  /\ Len(lastCall.cacheBefore) > CacheLimit
  /\ lastCall.cacheBefore[1].key # lastCall.text
  /\ lastCall.out = CompileString(lastCall.text).css
  /\ ~CompileString(prevCall.text).ok /\ ~TrimIsEmpty(prevCall.text)
====
